---- MODULE Spec2Model ----
(***************************************************************************)
(* Model of the offline-first document engine of matneez: the document     *)
(* store helpers (notes service, saveDocument, saveNote), the change feed  *)
(* wrappers and the two sync orchestrators (createSyncService and the      *)
(* module-level syncService).                                              *)
(*                                                                         *)
(* The specifications of the module:                                       *)
(*   SpecStore     tasks running the store helpers step by step (one step  *)
(*                 per await), next to other writers of the same store;    *)
(*   SpecFeed      change-feed subscriptions next to committing writers;   *)
(*   SpecListener  the built-in change listener and its restart on error;  *)
(*   SpecSync      the sync orchestrator, in its two variants;             *)
(*   SpecStatus    the status subscribers of createSyncService;            *)
(*   SpecBackoff   the retry back-off of a replication;                    *)
(*   SpecNotes     the list query and the notes calls on a store that      *)
(*                 also holds records of other kinds;                      *)
(*   SpecApp       the database service: initialize, the connection test   *)
(*                 and shutdown;                                           *)
(*   SpecLocal     the local calls next to the sync orchestrator.          *)
(* A specification leaves the variables of the others unchanged.           *)
(***************************************************************************)
EXTENDS Integers, Sequences, FiniteSets, TLC

(***************************************************************************)
(* Bounds.                                                                 *)
(***************************************************************************)
MaxCommits == 3      \* commits accepted by the store in one behaviour
MaxStarts == 2       \* startSync invocations in one behaviour
MaxDebounced == 3    \* debouncedSync calls in one behaviour
TimeStep == 250      \* the step in which time passes inside a debounce window
MaxSubs == 2         \* change-feed subscriptions opened in one behaviour
MaxFeeds == 4        \* feeds the built-in listener opens in one behaviour
MaxHandlers == 3     \* status handlers subscribed in one behaviour
MaxTransitions == 3  \* status transitions in one behaviour of the fan-out
MaxFailures == 14    \* failed replication requests in one behaviour
FeedStep == 2500     \* the step in which time passes while a restart is pending

DocIds == {"n1", "n2"}
HelperIds == {"n1"}  \* the document the helper calls of SpecStore work on
\* Content is opaque to the engine: every writer writes a value of its own.
ContentOf(who) == IF who = 0 THEN "E" ELSE IF who = 1 THEN "A" ELSE "B"
Tasks == {1, 2}       \* two helper calls may be in flight together
Env == 0             \* a writer other than the tasks (direct call, replication)

VARIABLES
    docs,       \* the local store: id -> current winning revision of the document
    log,        \* the store's commits, in commit order (its update sequence)
    task,       \* the helper call each task is running, and where it is
    subs,       \* the change-feed subscriptions opened on the local store
    listener,   \* window._pouchDbChangeListener: the built-in listener, 0 when unset
    lsn,        \* localDatabase's store instance and the pending restart timers
    cfg,        \* the orchestrator in use and its configuration
    sync,       \* the sync orchestrator's state, its timers and its replications
    hist,       \* what was called when (history of the orchestrator's calls)
    reg,        \* the orchestrator's status subscribers and the fan-out in progress
    bo,         \* the retry back-off of the replication in use
    app         \* the database service: where initialize, the connection test
                \* and shutdown are, and what they returned

storeVars == <<docs, log, task>>
feedVars == <<subs, listener, lsn>>
syncVars == <<cfg, sync, hist, reg, bo, app>>
vars == <<docs, log, task, subs, listener, lsn, cfg, sync, hist, reg, bo, app>>

(***************************************************************************)
(* Documents.  rev is the generation of the winning revision (0: the id    *)
(* was never written); a field the document does not carry is "none" / 0.  *)
(***************************************************************************)
NoDoc == [rev |-> 0, deleted |-> FALSE, content |-> "none", type |-> "none",
          createdAt |-> 0, updatedAt |-> 0]

IsLive(d) == d.rev > 0 /\ ~d.deleted

\* new Date(): a clock that never goes back; it advances with the commits
\* (time 1 is the time before the program started).
Now == Len(log) + 2

\* a note the store already held when the program started (written at time 1)
StoredNote == [rev |-> 1, deleted |-> FALSE, content |-> "P", type |-> "note",
               createdAt |-> 1, updatedAt |-> 1]

(***************************************************************************)
(* The store interface the helpers are written against (revision-tagged    *)
(* documents, optimistic-concurrency writes).                              *)
(***************************************************************************)
\* db.get(id)
PouchGet(d, id) ==
    IF IsLive(d[id]) THEN [res |-> "ok", doc |-> d[id]]
    ELSE [res |-> "not_found", doc |-> NoDoc]

\* the revision check of a write: w.rev is the presented _rev (0: none)
PouchAccepts(cur, r) ==
    IF cur.rev = 0 \/ cur.deleted THEN r = 0 ELSE r = cur.rev

\* db.put(doc)
PouchPut(d, id, w) ==
    IF PouchAccepts(d[id], w.rev)
    THEN [res |-> "ok", rev |-> d[id].rev + 1,
          docs |-> [d EXCEPT ![id] =
                      [rev |-> d[id].rev + 1, deleted |-> FALSE,
                       content |-> w.content, type |-> w.type,
                       createdAt |-> w.createdAt, updatedAt |-> w.updatedAt]]]
    ELSE [res |-> "conflict", rev |-> 0, docs |-> d]

\* db.remove(id, rev)
PouchRemove(d, id, r) ==
    IF d[id].rev = 0 THEN [res |-> "not_found", rev |-> 0, docs |-> d]
    ELSE IF IsLive(d[id]) /\ r = d[id].rev
    THEN [res |-> "ok", rev |-> d[id].rev + 1,
          docs |-> [d EXCEPT ![id] =
                      [NoDoc EXCEPT !.rev = d[id].rev + 1, !.deleted = TRUE]]]
    ELSE [res |-> "conflict", rev |-> 0, docs |-> d]


(***************************************************************************)
(* The typed wrapper of the store (createLocalDb): it hands the document,  *)
(* the presented _rev included, to the store.                              *)
(***************************************************************************)
\* a wrapper that answers a get of an absent document with an empty document
dbGetAny(d, id) == [res |-> "ok", doc |-> d[id]]

dbGet(d, id) == PouchGet(d, id)

\* a wrapper that writes on top of whatever revision is current
dbPutOnLatest(d, id, w) == PouchPut(d, id, [w EXCEPT !.rev = d[id].rev])

\* a wrapper that does not hand the content on
dbPutNoContent(d, id, w) == PouchPut(d, id, [w EXCEPT !.content = "none"])

dbPut(d, id, w) == PouchPut(d, id, w)

\* a wrapper that removes a removed document once more
dbRemoveAgain(d, id, r) ==
    IF d[id].deleted
    THEN [res |-> "ok", rev |-> d[id].rev + 1, docs |-> [d EXCEPT ![id].rev = @ + 1]]
    ELSE PouchRemove(d, id, r)

dbRemove(d, id, r) == PouchRemove(d, id, r)

(***************************************************************************)
(* Payloads and calls.                                                     *)
(***************************************************************************)
\* the document a caller hands to put; rev is the presented _rev (0: none)
Payload(r, c, ty, cr, up) ==
    [rev |-> r, content |-> c, type |-> ty, createdAt |-> cr, updatedAt |-> up]

NoPayload == Payload(0, "none", "none", 0, 0)

\* revisions a caller can hold for a document: none, or one a get returned
HeldRevs(d) == {r \in 0..d.rev : ~(d.deleted /\ r = d.rev)}

\* a commit: the new revision rev of id, written by who on top of the presented
\* revision base
Commit(i, r, who, del, b) == [id |-> i, rev |-> r, by |-> who, deleted |-> del, base |-> b]

\* the store after a write call, with its commit logged when it was accepted
Written(o, i, r, result, who) ==
    /\ result.res = "ok" => Len(log) < MaxCommits
    /\ docs' = result.docs
    /\ log' = IF result.res = "ok"
              THEN Append(log, Commit(i, result.rev, who, o = "remove", r))
              ELSE log

(***************************************************************************)
(* Tasks: one helper call each, one step per store access.                 *)
(***************************************************************************)
IdleTask ==
    [op |-> "none", pc |-> "idle", id |-> "n1", content |-> "none",
     w |-> NoPayload, readRev |-> 0, puts |-> 0, putRes |-> "none", accepted |-> 0,
     outcome |-> "none", retRev |-> 0,
     opts |-> [sort |-> "none", limit |-> 0], found |-> <<>>, at |-> 0,
     newId |-> "none"]

\* tasks are interchangeable: they are taken in order
CanStart(p) == task[p].pc = "idle" /\ \A q \in Tasks : q < p => task[q].pc # "idle"

Finish(t, out, r) == [t EXCEPT !.pc = "done", !.outcome = out, !.retRev = r]

\* a check that takes every document for a note
anyDocument(doc) == TRUE

isNote(doc) == doc.type = "note"

\* ensureNote after a get
GetOutcome(g) ==
    IF g.res # "ok" THEN g.res ELSE IF isNote(g.doc) THEN "ok" ELSE "not_note"

(***************************************************************************)
(* Other writers: a direct put / remove on the store (a test, the          *)
(* replication, another tab's helper).                                     *)
(***************************************************************************)
DirectPut(id, r, c) ==
    LET cur == docs[id]
        w == IF IsLive(cur)
             THEN Payload(r, c, cur.type, cur.createdAt, Now)
             ELSE Payload(r, c, "note", Now, Now)
        result == dbPut(docs, id, w)
    IN /\ r \in HeldRevs(cur)
       /\ Written("put", id, r, result, Env)
       /\ UNCHANGED <<task, feedVars, syncVars>>

DirectRemove(id, r) ==
    LET result == dbRemove(docs, id, r)
    IN /\ r \in HeldRevs(docs[id])
       /\ Written("remove", id, r, result, Env)
       /\ UNCHANGED <<task, feedVars, syncVars>>

(***************************************************************************)
(* notes service: update(id, updates) = get, merge, put, get again.        *)
(***************************************************************************)
UpdateGet(p, id, c) ==
    LET g == dbGet(docs, id)
        out == GetOutcome(g)
        t == [IdleTask EXCEPT !.op = "update", !.id = id, !.content = c]
    IN /\ CanStart(p)
       /\ task' = [task EXCEPT ![p] =
            IF out # "ok" THEN Finish(t, out, 0)
            ELSE [t EXCEPT !.pc = "put", !.readRev = g.doc.rev,
                           !.w = Payload(g.doc.rev, c, g.doc.type,
                                         g.doc.createdAt, Now)]]
       /\ UNCHANGED <<docs, log, feedVars, syncVars>>

UpdatePut(p) ==
    LET t == task[p]
        result == dbPut(docs, t.id, t.w)
    IN /\ t.op = "update" /\ t.pc = "put"
       /\ Written("put", t.id, t.w.rev, result, p)
       /\ task' = [task EXCEPT ![p] =
            IF result.res = "ok"
            THEN [t EXCEPT !.pc = "reget", !.puts = @ + 1, !.putRes = "ok",
                           !.accepted = @ + 1]
            ELSE Finish([t EXCEPT !.puts = @ + 1, !.putRes = result.res], result.res, 0)]
       /\ UNCHANGED <<feedVars, syncVars>>

\* an update that resolves with the document it wrote instead of reading it back
UpdateResultWritten(t, g) == Finish(t, "ok", t.w.rev)

\* the note update resolves with: the document as the second get returns it
UpdateResult(t, g) ==
    Finish(t, GetOutcome(g), IF GetOutcome(g) = "ok" THEN g.doc.rev ELSE 0)

UpdateReget(p) ==
    LET t == task[p]
        g == dbGet(docs, t.id)
    IN /\ t.op = "update" /\ t.pc = "reget"
       /\ task' = [task EXCEPT ![p] = UpdateResult(t, g)]
       /\ UNCHANGED <<docs, log, feedVars, syncVars>>

(***************************************************************************)
(* localDatabase.saveDocument(id, content, rev)                            *)
(***************************************************************************)
\* the document saveDocument builds when it is given a revision
SaveDocumentWithRev(c, r, now) == Payload(r, c, "none", 0, now)

\* the document it builds from what its own get returned
SaveDocumentFromGet(g, c, now) ==
    IF g.res = "ok"
    THEN Payload(g.doc.rev, c, g.doc.type, g.doc.createdAt, now)
    ELSE Payload(0, c, "note", now, now)

\* the call without a revision: its get
SaveDocumentGet(p, id, c) ==
    LET g == PouchGet(docs, id)
        t == [IdleTask EXCEPT !.op = "saveDocument", !.id = id, !.content = c]
    IN /\ CanStart(p)
       /\ task' = [task EXCEPT ![p] =
            [t EXCEPT !.pc = "put", !.readRev = g.doc.rev,
                      !.w = SaveDocumentFromGet(g, c, Now)]]
       /\ UNCHANGED <<docs, log, feedVars, syncVars>>

\* the call with a revision: the document is built and put at once
SaveDocumentCall(p, id, c, r) ==
    LET t == [IdleTask EXCEPT !.op = "saveDocument", !.id = id, !.content = c,
                              !.readRev = r, !.pc = "put",
                              !.w = SaveDocumentWithRev(c, r, Now)]
    IN /\ CanStart(p)
       /\ r \in HeldRevs(docs[id]) \ {0}
       /\ task' = [task EXCEPT ![p] = t]
       /\ UNCHANGED <<docs, log, feedVars, syncVars>>

\* after a conflict: fetch the latest revision and call saveDocument again
SaveDocumentRetry(t, g) ==
    IF g.res # "ok" THEN Finish(t, g.res, 0)
    ELSE [t EXCEPT !.pc = "put",
                   !.w = SaveDocumentWithRev(t.content, g.doc.rev, Now)]

SaveDocumentPut(p) ==
    LET t == task[p]
        result == PouchPut(docs, t.id, t.w)
    IN /\ t.op = "saveDocument" /\ t.pc = "put"
       /\ Written("put", t.id, t.w.rev, result, p)
       /\ task' = [task EXCEPT ![p] =
            IF result.res = "ok"
            THEN Finish([t EXCEPT !.puts = @ + 1, !.putRes = "ok", !.accepted = @ + 1],
                        "ok", result.rev)
            ELSE [t EXCEPT !.puts = @ + 1, !.putRes = result.res, !.pc = "refetch"]]
       /\ UNCHANGED <<feedVars, syncVars>>

SaveDocumentRefetch(p) ==
    LET t == task[p]
        g == PouchGet(docs, t.id)
    IN /\ t.op = "saveDocument" /\ t.pc = "refetch"
       /\ task' = [task EXCEPT ![p] = SaveDocumentRetry(t, g)]
       /\ UNCHANGED <<docs, log, feedVars, syncVars>>

(***************************************************************************)
(* PouchDB service: saveNote(noteId, htmlContent, currentRev)              *)
(***************************************************************************)
SaveNoteGet(p, id, c) ==
    LET g == PouchGet(docs, id)
        t == [IdleTask EXCEPT !.op = "saveNote", !.id = id, !.content = c]
    IN /\ CanStart(p)
       /\ task' = [task EXCEPT ![p] =
            [t EXCEPT !.pc = "put", !.readRev = g.doc.rev,
                      !.w = IF g.res = "ok"
                            THEN Payload(g.doc.rev, c, "none", g.doc.createdAt, Now)
                            ELSE Payload(0, c, "none", Now, Now)]]
       /\ UNCHANGED <<docs, log, feedVars, syncVars>>

\* what follows a rejected write of saveNote: one re-fetch after the first
\* rejection, the error to the caller after the second
SaveNoteAfterConflict(t) ==
    IF t.puts = 0 THEN [t EXCEPT !.puts = @ + 1, !.putRes = "conflict", !.pc = "refetch"]
    ELSE Finish([t EXCEPT !.puts = @ + 1, !.putRes = "conflict"], "conflict", 0)

SaveNotePut(p) ==
    LET t == task[p]
        result == PouchPut(docs, t.id, t.w)
    IN /\ t.op = "saveNote" /\ t.pc = "put"
       /\ Written("put", t.id, t.w.rev, result, p)
       /\ task' = [task EXCEPT ![p] =
            IF result.res = "ok"
            THEN Finish([t EXCEPT !.puts = @ + 1, !.putRes = "ok", !.accepted = @ + 1],
                        "ok", result.rev)
            ELSE SaveNoteAfterConflict(t)]
       /\ UNCHANGED <<feedVars, syncVars>>

SaveNoteRefetch(p) ==
    LET t == task[p]
        g == PouchGet(docs, t.id)
    IN /\ t.op = "saveNote" /\ t.pc = "refetch"
       /\ task' = [task EXCEPT ![p] =
            IF g.res # "ok" THEN Finish(t, g.res, 0)
            ELSE [t EXCEPT !.pc = "put", !.w = [t.w EXCEPT !.rev = g.doc.rev]]]
       /\ UNCHANGED <<docs, log, feedVars, syncVars>>

(***************************************************************************)
(* The sync orchestrator, in its two variants: createSyncService (fp) and  *)
(* the module-level syncService (js).  Time is counted in milliseconds.    *)
(* A startSync call runs up to its first await in the turn of its caller;  *)
(* what follows an await on a settled promise is a microtask, and the      *)
(* microtasks of a turn run before the next timer or replication event.    *)
(* A timer callback runs at the instant its timer expires.                 *)
(***************************************************************************)
DEBOUNCE_DELAY == 500
SYNC_INTERVAL == 30000   \* SYNC_CONFIG.interval, its default

Variants == {"fp", "js"}

DEFAULT_STATUS == [isActive |-> FALSE, isPeriodicSyncActive |-> FALSE,
                   isRemoteConnected |-> FALSE, error |-> FALSE, lastSync |-> FALSE]

\* options: tag tells which call they were given to, live is the caller's wish
NoOpts == [tag |-> 0, live |-> "unset"]
LiveOpts == [tag |-> 0, live |-> "true"]
\* the options of the n-th debouncedSync call
GivenOpts(n) == [tag |-> n, live |-> IF n % 2 = 1 THEN "false" ELSE "true"]

Timer(i, k, l, o) == [id |-> i, kind |-> k, left |-> l, opts |-> o]

LiveStates == {"live"}
LiveReps(S) == {r \in 1..Len(S.reps) : S.reps[r].state \in LiveStates}

\* the state createSyncService leaves / the module's globals when loaded
SyncStart(c) ==
    LET base == [syncHandler |-> 0, syncInterval |-> 0, debounceTimer |-> 0,
                 remoteDbInstance |-> FALSE, isConnected |-> FALSE,
                 timers |-> {}, nextTimer |-> 1, reps |-> <<>>, calls |-> <<>>,
                 currentStatus |-> DEFAULT_STATUS]
    IN IF c.variant = "fp" /\ c.enabled /\ SYNC_INTERVAL > 0
       THEN [base EXCEPT !.syncInterval = 1,
                         !.timers = {Timer(1, "interval", SYNC_INTERVAL, NoOpts)},
                         !.nextTimer = 2,
                         !.currentStatus = [@ EXCEPT !.isPeriodicSyncActive = TRUE]]
       ELSE base

HistStart == [sinceCall |-> DEBOUNCE_DELAY, debCalls |-> 0, stopRun |-> 0,
              quiet |-> FALSE]

\* stopRun: the stopSync calls made in a row just now (2: two or more); any
\* other step ends the run
Touch(h) == [h EXCEPT !.stopRun = 0]

\* quiet: stopSync has returned, and startSync, debouncedSync, startPeriodicSync
\* or initializeDatabase have not been called since
Called(h) == [Touch(h) EXCEPT !.quiet = FALSE]

\* updateStatus(updates) of createSyncService; the module keeps no status
updateStatus(S, st) == IF cfg.variant = "fp" THEN [S EXCEPT !.currentStatus = st] ELSE S

\* getStatus() / getSyncStatus()
getStatus(S) ==
    IF cfg.variant = "fp" THEN S.currentStatus
    ELSE [DEFAULT_STATUS EXCEPT !.isActive = S.syncHandler # 0,
                                !.isPeriodicSyncActive = S.syncInterval # 0,
                                !.isRemoteConnected = cfg.remote]

\* if (syncHandler) { syncHandler.cancel(); syncHandler = null }
CancelHandler(S) ==
    IF S.syncHandler = 0 THEN S
    ELSE [S EXCEPT !.syncHandler = 0,
                   !.reps[S.syncHandler].state =
                       IF @ \in LiveStates THEN "cancelled" ELSE @]

clearTimer(S, i) == [S EXCEPT !.timers = {t \in @ : t.id # i}]

\* if (syncInterval) { clearInterval(syncInterval); syncInterval = null }
ClearInterval(S) ==
    IF S.syncInterval = 0 THEN S
    ELSE [clearTimer(S, S.syncInterval) EXCEPT !.syncInterval = 0]

\* stopSync()
StopSyncEffect(S) ==
    LET a == ClearInterval(CancelHandler(S))
    IN updateStatus(a, [a.currentStatus EXCEPT !.isActive = FALSE,
                                               !.isPeriodicSyncActive = FALSE,
                                               !.isRemoteConnected = FALSE])

\* a startSync invocation; one made by the debounce timer also records how
\* long after which debouncedSync call it was made
NewCall(origin, o, pc, res) ==
    [origin |-> origin, opts |-> o, pc |-> pc, result |-> res,
     at |-> IF origin = "debounced" THEN hist.sinceCall ELSE 0,
     ofCall |-> IF origin = "debounced" THEN hist.debCalls ELSE 0]

AddCall(S, c) == [S EXCEPT !.calls = Append(@, c)]

\* module-level startSync(options), up to its first await
JsStartSync(S, origin, o) ==
    IF ~cfg.enabled THEN AddCall(S, NewCall(origin, o, "done", "null"))
    ELSE LET a == StopSyncEffect(S)
         IN IF ~cfg.remote THEN AddCall(a, NewCall(origin, o, "done", "null"))
            ELSE AddCall([a EXCEPT !.remoteDbInstance = TRUE, !.isConnected = TRUE],
                         NewCall(origin, o, "await", "none"))

\* createSyncService startSync(options)(): the task is started, nothing ran yet
FpStartSync(S, origin, o) == AddCall(S, NewCall(origin, o, "onStart", "none"))

StartSyncCall(S, origin, o) ==
    IF cfg.variant = "fp" THEN FpStartSync(S, origin, o) ELSE JsStartSync(S, origin, o)

\* localDb.sync(remoteDb, options), stored as the current handler
NewReplication(S, c) ==
    [S EXCEPT !.reps = Append(@, [state |-> "live", call |-> c,
                                  live |-> S.calls[c].opts.live # "false"]),
              !.syncHandler = Len(S.reps) + 1]

Microtasks == {"await", "onStart", "body", "settled"}
NoMicrotask == \A c \in 1..Len(sync.calls) : sync.calls[c].pc \notin Microtasks
CanStartSync == Len(sync.calls) < MaxStarts

Frame == UNCHANGED <<cfg, reg, bo, app, storeVars, feedVars>>

\* a direct startSync(options) call
StartSync(o) ==
    /\ CanStartSync
    /\ sync' = StartSyncCall(sync, "manual", o)
    /\ hist' = Called(hist)
    /\ Frame

\* fp: onStart of withSyncHandling
FpOnStart(c) ==
    /\ sync.calls[c].pc = "onStart"
    /\ sync' = [updateStatus(sync, [sync.currentStatus EXCEPT !.isActive = TRUE])
                  EXCEPT !.calls[c].pc = "body"]
    /\ hist' = Touch(hist)
    /\ Frame

\* fp: the body of startSync, up to the promise it waits on
FpBodyEffect(S, c) ==
    IF ~cfg.enabled THEN [S EXCEPT !.calls[c].pc = "settled", !.calls[c].result = "false"]
    ELSE IF ~cfg.remote
    THEN [S EXCEPT !.calls[c].pc = "settled", !.calls[c].result = "error"]
    ELSE LET a == CancelHandler(S)
             b == updateStatus(a, [a.currentStatus EXCEPT !.isActive = TRUE,
                                                          !.isRemoteConnected = TRUE,
                                                          !.error = FALSE])
         IN [NewReplication(b, c) EXCEPT !.calls[c].pc = "running"]

FpBody(c) ==
    /\ sync.calls[c].pc = "body"
    /\ sync' = FpBodyEffect(sync, c)
    /\ hist' = Touch(hist)
    /\ Frame

\* fp: onComplete of withSyncHandling
FpComplete(c) ==
    /\ sync.calls[c].pc = "settled"
    /\ sync' = [updateStatus(sync, [sync.currentStatus EXCEPT
                                       !.isActive = FALSE,
                                       !.lastSync = TRUE,
                                       !.error = (sync.calls[c].result = "error")])
                  EXCEPT !.calls[c].pc = "done"]
    /\ hist' = Touch(hist)
    /\ Frame

\* js: startSync after await isRemoteConnected()
JsResume(c) ==
    /\ sync.calls[c].pc = "await"
    /\ sync' = [NewReplication(sync, c) EXCEPT !.calls[c].pc = "done",
                                               !.calls[c].result = "handler"]
    /\ hist' = Touch(hist)
    /\ Frame

\* resolve(true) / reject(err) of the promise the fp startSync waits on
Settle(S, r, res) ==
    LET c == S.reps[r].call
    IN IF cfg.variant = "fp" /\ S.calls[c].pc = "running"
       THEN [S EXCEPT !.calls[c].pc = "settled", !.calls[c].result = res]
       ELSE S

\* the replication's 'paused' event
RepPaused(r) ==
    /\ NoMicrotask
    /\ sync.reps[r].state \in LiveStates
    /\ sync' = Settle(updateStatus(sync, [sync.currentStatus EXCEPT !.isActive = FALSE]),
                      r, "true")
    /\ hist' = Touch(hist)
    /\ Frame

\* the replication's 'active' / 'change' event
RepActive(r) ==
    /\ NoMicrotask
    /\ sync.reps[r].state \in LiveStates
    /\ sync' = updateStatus(sync, [sync.currentStatus EXCEPT !.isActive = TRUE])
    /\ hist' = Touch(hist)
    /\ Frame

\* the replication's 'error' event: the replication has ended
RepError(r) ==
    /\ NoMicrotask
    /\ sync.reps[r].state \in LiveStates
    /\ sync' = Settle(updateStatus([sync EXCEPT !.reps[r].state = "failed"],
                                   [sync.currentStatus EXCEPT !.isActive = FALSE,
                                                              !.isRemoteConnected = FALSE,
                                                              !.error = TRUE]),
                      r, "error")
    /\ hist' = Touch(hist)
    /\ Frame

\* the 'complete' event a cancelled replication emits
RepComplete(r) ==
    /\ NoMicrotask
    /\ sync.reps[r].state = "cancelled"
    /\ sync' = Settle(updateStatus([sync EXCEPT !.reps[r].state = "ended"],
                                   [sync.currentStatus EXCEPT !.isActive = FALSE]),
                      r, "true")
    /\ hist' = Touch(hist)
    /\ Frame

\* a debouncedSync that leaves the pending timer in place
KeepDebounce(S) == S

\* if (debounceTimer) clearTimeout(debounceTimer)
ClearDebounce(S) == IF S.debounceTimer = 0 THEN S ELSE clearTimer(S, S.debounceTimer)

\* debounceTimer = setTimeout(..., DEBOUNCE_DELAY)
SetDebounce(S, o) ==
    [S EXCEPT !.timers = @ \cup {Timer(S.nextTimer, "debounce", DEBOUNCE_DELAY, o)},
              !.debounceTimer = S.nextTimer,
              !.nextTimer = @ + 1]

\* debouncedSync(options)
DebouncedSync ==
    /\ hist.debCalls < MaxDebounced
    /\ sync' = SetDebounce(ClearDebounce(sync), GivenOpts(hist.debCalls + 1))
    /\ hist' = [Called(hist) EXCEPT !.debCalls = @ + 1, !.sinceCall = 0]
    /\ Frame

\* the options the debounce callback hands to startSync
DebounceOptions(o) == IF cfg.variant = "js" THEN [o EXCEPT !.live = "true"] ELSE o

\* the debounce timer's callback
DebounceFire(t) ==
    /\ NoMicrotask
    /\ CanStartSync
    /\ t.kind = "debounce" /\ t.left = 0
    /\ sync' = StartSyncCall(clearTimer(sync, t.id), "debounced", DebounceOptions(t.opts))
    /\ hist' = Touch(hist)
    /\ Frame

\* the periodic timer's callback; the interval timer runs on unless cleared
PeriodicTick(t) ==
    /\ NoMicrotask
    /\ CanStartSync
    /\ t.kind = "interval" /\ t.left = 0
    /\ sync' = [StartSyncCall(sync, "periodic",
                              IF cfg.variant = "js" THEN LiveOpts ELSE NoOpts)
                  EXCEPT !.timers = {IF u.id = t.id THEN [u EXCEPT !.left = SYNC_INTERVAL]
                                     ELSE u : u \in @}]
    /\ hist' = Touch(hist)
    /\ Frame

\* js: startPeriodicSync(interval)
StartPeriodicSyncEffect(S) ==
    LET a == IF S.syncInterval # 0 THEN clearTimer(S, S.syncInterval) ELSE S
        b == JsStartSync(a, "manual", LiveOpts)
    IN [b EXCEPT !.timers = @ \cup {Timer(b.nextTimer, "interval", SYNC_INTERVAL, NoOpts)},
                 !.syncInterval = b.nextTimer,
                 !.nextTimer = @ + 1]

StartPeriodicSync ==
    /\ cfg.variant = "js"
    /\ CanStartSync
    /\ sync' = StartPeriodicSyncEffect(sync)
    /\ hist' = Called(hist)
    /\ Frame

\* a stopSync() call
StopSync ==
    /\ sync' = StopSyncEffect(sync)
    /\ hist' = [hist EXCEPT !.stopRun = IF @ = 0 THEN 1 ELSE 2, !.quiet = TRUE]
    /\ Frame

Min(a, b) == IF a < b THEN a ELSE b

Due(S) == {t \in S.timers : t.left = 0}
Debounces(S) == {t \in S.timers : t.kind = "debounce"}
IntervalTimers(S) == {t \in S.timers : t.kind = "interval"}

\* time passes inside a debounce window, in steps, up to the next debounce
\* timer to expire
Elapse ==
    IF Debounces(sync) = {} THEN TimeStep
    ELSE Min(TimeStep, CHOOSE m \in {t.left : t \in Debounces(sync)} :
                           \A t \in Debounces(sync) : m <= t.left)

Advance ==
    /\ NoMicrotask
    /\ Due(sync) = {}
    /\ hist.sinceCall < DEBOUNCE_DELAY \/ Debounces(sync) # {}
    /\ sync' = [sync EXCEPT !.timers = {IF t.kind = "debounce"
                                        THEN [t EXCEPT !.left = @ - Elapse]
                                        ELSE t : t \in @}]
    /\ hist' = [Touch(hist) EXCEPT !.sinceCall = Min(DEBOUNCE_DELAY, @ + Elapse)]
    /\ Frame

\* the periodic timer reaches its next expiry; where in the debounce window
\* that happens is left open
IntervalElapses(t) ==
    /\ NoMicrotask
    /\ Due(sync) = {}
    /\ t.kind = "interval"
    /\ sync' = [sync EXCEPT !.timers = {IF u.id = t.id THEN [u EXCEPT !.left = 0]
                                        ELSE u : u \in @}]
    /\ hist' = Touch(hist)
    /\ Frame

(***************************************************************************)
(* The retry back-off of the module-level startSync.  The replication      *)
(* keeps the current delay, 0 to begin with, hands it to back_off_function *)
(* after every failed request and waits for what it returns; when the      *)
(* replication is active again the delay is back at 0.  Delays are counted *)
(* in 1/Scale ms, so that the growth by one half is exact.                 *)
(***************************************************************************)
Scale == 2048
BACKOFF_FIRST == 1000
BACKOFF_MAX == 60000

\* back_off_function: (delay) => ...
back_off_function(delay) ==
    IF delay = 0 THEN BACKOFF_FIRST * Scale
    ELSE IF delay >= BACKOFF_MAX * Scale THEN BACKOFF_MAX * Scale
    ELSE (delay * 3) \div 2

\* delay: the replication's current back-off; run: the requests that failed
\* in a row; before: the delay that was handed to back_off_function last
NoBackoff == [delay |-> 0, run |-> 0, before |-> 0, fails |-> 0, starts |-> 0]

\* the replication after a failed request
PouchBackOff(b) ==
    [b EXCEPT !.delay = back_off_function(b.delay), !.before = b.delay,
              !.run = @ + 1, !.fails = @ + 1]

BackoffFrame == UNCHANGED <<cfg, sync, hist, reg, app, storeVars, feedVars>>

\* startSync: a replication with options of its own
BackoffStart ==
    /\ bo.starts < MaxStarts
    /\ bo' = [NoBackoff EXCEPT !.starts = bo.starts + 1, !.fails = bo.fails]
    /\ BackoffFrame

\* a request of the replication fails: it waits, then tries again
RetryFail ==
    /\ bo.starts > 0
    /\ bo.fails < MaxFailures
    /\ bo' = PouchBackOff(bo)
    /\ BackoffFrame

\* the retry succeeds: the replication is active again
RetryActive ==
    /\ bo.run > 0
    /\ bo' = [bo EXCEPT !.delay = 0, !.run = 0, !.before = 0]
    /\ BackoffFrame

(***************************************************************************)
(* createSyncService: the status subscribers.  Every updateStatus call is  *)
(* a status transition; notifySubscribers hands it to the subscribers with *)
(* subscribers.forEach, synchronously; a handler may subscribe and         *)
(* unsubscribe handlers while it runs, and what it starts with startSync   *)
(* or stopSync runs as a task after the fan-out.  Handlers are numbered in *)
(* the order in which they subscribe.                                      *)
(***************************************************************************)
HandlerIds == 1..MaxHandlers

\* got: the handler's invocations, each with the number of the transition
\* that was current and the status handed over; subAt, unsubAt: the number of
\* the last transition that was fanned out when the handler subscribed / its
\* unsubscribe function was called (-1: not called)
NoHandler == [state |-> "new", subAt |-> 0, unsubAt |-> -1, got |-> <<>>]

\* no forEach in progress
NoFan == [on |-> FALSE, idx |-> 0, len |-> 0, last |-> 0]

RegIdle == [subscribers |-> <<>>, hs |-> [h \in HandlerIds |-> NoHandler],
            trans |-> <<>>, fan |-> NoFan, stopQueued |-> FALSE]

\* the number of the current status: the transitions made so far
Ver(R) == Len(R.trans)

\* the transitions whose fan-out is over
Done(R) == IF R.fan.on THEN Ver(R) - 1 ELSE Ver(R)

\* handler(status)
Call(R, h, st) ==
    [R EXCEPT !.hs[h].got = Append(@, [ver |-> Ver(R), status |-> st])]

\* subscribe(handler): push, then handler(currentStatus)
subscribe(R, h, st) ==
    Call([R EXCEPT !.subscribers = Append(@, h),
                   !.hs[h].state = "subscribed",
                   !.hs[h].subAt = Ver(R)], h, st)

Without(q, h) == SelectSeq(q, LAMBDA x : x # h)

IsSubscribed(R, h) == \E k \in 1..Len(R.subscribers) : R.subscribers[k] = h

\* the unsubscribe function: indexOf, splice
unsubscribe(R, h) ==
    IF IsSubscribed(R, h)
    THEN [R EXCEPT !.subscribers = Without(@, h),
                   !.hs[h].state = "unsubscribed",
                   !.hs[h].unsubAt = Done(R)]
    ELSE R

\* notifySubscribers(status): currentStatus = status, and forEach sets out
\* over the subscribers there are now
notifySubscribers(R, st) ==
    [R EXCEPT !.trans = Append(@, st),
              !.fan = IF Len(R.subscribers) > 0
                      THEN [on |-> TRUE, idx |-> 1, len |-> Len(R.subscribers),
                            last |-> 0]
                      ELSE NoFan]

\* the handler that subscribes next
NextHandler(R) == Len(SelectSeq([h \in HandlerIds |-> h],
                                LAMBDA h : R.hs[h].state # "new")) + 1

AllReactions == [kind : {"none", "unsubscribe", "subscribe", "stopSync"},
                 h : 0..MaxHandlers]

\* what a handler does while it runs
Reactions(R) ==
    {[kind |-> "none", h |-> 0]}
    \cup {[kind |-> "unsubscribe", h |-> g] : g \in {x \in HandlerIds : IsSubscribed(R, x)}}
    \cup {[kind |-> "subscribe", h |-> g] : g \in {NextHandler(R)} \cap HandlerIds}
    \cup {[kind |-> "stopSync", h |-> 0] : x \in {y \in {0} : ~R.stopQueued}}

React(R, r, st) ==
    IF r.kind = "unsubscribe" THEN unsubscribe(R, r.h)
    ELSE IF r.kind = "subscribe" THEN subscribe(R, r.h, st)
    ELSE IF r.kind = "stopSync" THEN [R EXCEPT !.stopQueued = TRUE]
    ELSE R

\* forEach goes on to the next index that is below the length it set out with
\* and still in the array
ForEachNext(R, f, h) ==
    IF f.idx + 1 <= Min(f.len, Len(R.subscribers))
    THEN [f EXCEPT !.idx = @ + 1, !.last = h]
    ELSE NoFan

StatusFrame == UNCHANGED <<cfg, hist, bo, app, storeVars, feedVars>>

\* a subscribe(handler) call
SyncSubscribe(h) ==
    /\ ~reg.fan.on
    /\ h = NextHandler(reg)
    /\ reg' = subscribe(reg, h, getStatus(sync))
    /\ UNCHANGED sync
    /\ StatusFrame

\* a call of the unsubscribe function of handler h
SyncUnsubscribe(h) ==
    /\ ~reg.fan.on
    /\ IsSubscribed(reg, h)
    /\ reg' = unsubscribe(reg, h)
    /\ UNCHANGED sync
    /\ StatusFrame

\* the updates a replication event hands to updateStatus
EventUpdates(e) == [isActive |-> e = "active"]

\* a replication's 'active' / 'change' or 'paused' event: updateStatus(updates)
StatusUpdate(e) ==
    /\ ~reg.fan.on
    /\ Ver(reg) < MaxTransitions
    /\ sync' = updateStatus(sync, [sync.currentStatus EXCEPT
                                      !.isActive = EventUpdates(e).isActive])
    /\ reg' = notifySubscribers(reg, sync'.currentStatus)
    /\ StatusFrame

\* the stopSync()() a handler called: its task runs after the fan-out
StopSyncTask ==
    /\ ~reg.fan.on
    /\ reg.stopQueued
    /\ Ver(reg) < MaxTransitions
    /\ sync' = StopSyncEffect(sync)
    /\ reg' = notifySubscribers([reg EXCEPT !.stopQueued = FALSE], sync'.currentStatus)
    /\ StatusFrame

\* forEach calls the next handler, which reacts
Notify(r) ==
    LET f == reg.fan
        h == reg.subscribers[f.idx]
        a == Call(reg, h, reg.trans[Ver(reg)])
        b == React(a, r, sync.currentStatus)
    IN /\ f.on
       /\ r \in Reactions(a)
       /\ reg' = [b EXCEPT !.fan = ForEachNext(b, f, h)]
       /\ UNCHANGED sync
       /\ StatusFrame

\* the status initializeDatabase returns
NoInitStatus == [localInitialized |-> FALSE, remoteConnected |-> FALSE,
                 syncActive |-> FALSE]

\* ipc, tpc, cpc: where initializeDatabase, testRemoteConnection and
\* cleanupDatabases are; awaits: the startSync call initialize waits for;
\* handle, probe: what the connection test met; did: what shutdown has done
\* xpc: where a closeRemoteConnection call of its own is
AppStart == [ipc |-> "idle", status |-> NoInitStatus, awaits |-> 0,
             tpc |-> "idle", handle |-> "none", probe |-> "none",
             cpc |-> "idle", cleanup |-> "none", did |-> <<>>,
             xpc |-> "idle"]

SyncIdle ==
    /\ cfg = [variant |-> "fp", enabled |-> FALSE, remote |-> FALSE]
    /\ sync = SyncStart(cfg)
    /\ hist = HistStart
    /\ reg = RegIdle
    /\ bo = NoBackoff
    /\ app = AppStart

(***************************************************************************)
(* The change feed.  db.changes(options) opens a feed on the store's       *)
(* update sequence (log): since 'now' starts it behind the last commit,    *)
(* live keeps it open; every feed has its own position, and the events it  *)
(* emits go to the handler registered on it.                               *)
(***************************************************************************)
SubIds == 1..MaxSubs
\* the feeds of a behaviour; the subscriptions take the first of them
FeedIds == 1..MaxFeeds

\* closedAt: the length of the update sequence when the subscription's
\* unsubscribe / cancel function returned (-1: it was not called)
NoSub == [state |-> "free", kind |-> "none", startedAt |-> 0, next |-> 0,
          events |-> <<>>, closedAt |-> -1, age |-> 0, waited |-> -1]

\* db.changes(options): the feed as the store opens it
PouchChanges(o, kind) ==
    [state |-> IF o.live THEN "live" ELSE "complete",
     kind |-> kind,
     startedAt |-> Len(log),
     next |-> IF o.since = "now" THEN Len(log) + 1 ELSE 1,
     events |-> <<>>,
     closedAt |-> -1, age |-> 0, waited |-> -1]

\* the change event of a commit, as a handler receives it
ChangeEvent(e) == [id |-> e.id, rev |-> e.rev, deleted |-> e.deleted]

\* feed.cancel()
PouchCancel(f) == IF f.state = "live" THEN [f EXCEPT !.state = "cancelled"] ELSE f

\* a subscription that replays the whole update sequence
SubscribeFromStart == [since |-> "start", live |-> TRUE]

\* notes service subscribe(onChange), listenToChanges(db)(onChange): the options
SubscribeOptions == [since |-> "now", live |-> TRUE]

\* createLocalDb(...).changes(options): the options handed to the store
ChangesOptions(o) ==
    [since |-> IF o.since = "unset" THEN "now" ELSE o.since,
     live |-> IF o.live = "unset" THEN FALSE ELSE o.live = "true"]

\* the slot a new subscription takes
FreeSub(s) == subs[s].state = "free" /\ \A q \in FeedIds : q < s => subs[q].state # "free"

Subscribe(s) ==
    /\ FreeSub(s)
    /\ subs' = [subs EXCEPT ![s] = PouchChanges(SubscribeOptions, "subscribe")]
    /\ UNCHANGED <<listener, lsn, storeVars, syncVars>>

Changes(s, o) ==
    /\ FreeSub(s)
    /\ subs' = [subs EXCEPT ![s] = PouchChanges(ChangesOptions(o), "changes")]
    /\ UNCHANGED <<listener, lsn, storeVars, syncVars>>

\* cancelling a subscription cancels every open feed
CancelAll(f, s) == [q \in FeedIds |-> PouchCancel(f[q])]

\* an unsubscribe function that cancels nothing
CancelNone(f, s) == f

\* the unsubscribe function / cancel() of subscription s
CancelOf(f, s) == [f EXCEPT ![s] = PouchCancel(f[s])]

\* the cancel function of subscription s has returned
Closed(f, s) == [f EXCEPT ![s].closedAt = Len(log)]

Unsubscribe(s) ==
    /\ subs[s].state = "live"
    /\ subs[s].kind # "listener"
    /\ subs' = Closed(CancelOf(subs, s), s)
    /\ UNCHANGED <<listener, lsn, storeVars, syncVars>>

(***************************************************************************)
(* localDatabase: the store instance and its built-in change listener,     *)
(* kept in a global and started again RESTART_DELAY after its feed         *)
(* reported an error.  The store is opened once in a behaviour.            *)
(***************************************************************************)
RESTART_DELAY == 5000

\* dbInstance: the module holds an instance; isDestroyed: its flag; pc: where
\* the life of the instance last created is; timers: the pending restart
\* timers, each with the feed whose error set it; got: where the life of the
\* instance was that getDatabase returned last
LsnStart == [dbInstance |-> FALSE, isDestroyed |-> FALSE, pc |-> "unopened",
             timers |-> {}, got |-> "none"]
LsnOpen == [dbInstance |-> TRUE, isDestroyed |-> FALSE, pc |-> "open",
            timers |-> {}, got |-> "none"]

RestartTimer(s) == [of |-> s, left |-> RESTART_DELAY]

FreeFeeds == {s \in FeedIds : subs[s].state = "free"}

\* a feed is opened, or fails, only while a feed is left for every restart
\* that is pending
CanOpen == Cardinality(FreeFeeds) > Cardinality(lsn.timers)

\* a restart that leaves the previous listener running
KeepListener(f, l) == f

\* if (window._pouchDbChangeListener) window._pouchDbChangeListener.cancel()
CancelListener(f, l) == IF l # 0 THEN Closed(CancelOf(f, l), l) ELSE f

\* startChangeListener() with the store open: feed s becomes the listener; w
\* tells how long after the error the restart timer made the call
StartListener(f, l, s, w) ==
    [CancelListener(f, l) EXCEPT
        ![s] = [PouchChanges(SubscribeOptions, "listener") EXCEPT !.waited = w]]

\* localDatabase.startChangeListener(): one listener, kept in a global
StartChangeListener(s) ==
    /\ lsn.dbInstance
    /\ CanOpen
    /\ FreeSub(s)
    /\ subs' = StartListener(subs, listener, s, -1)
    /\ listener' = s
    /\ UNCHANGED <<lsn, storeVars, syncVars>>

\* getDatabase() creates an instance: the flag is set, or none is held
Opens(L) == L.isDestroyed \/ ~L.dbInstance

\* a getDatabase that creates the instance once and returns it ever after
getDatabaseOnce(L) ==
    IF L.pc = "unopened"
    THEN [L EXCEPT !.dbInstance = TRUE, !.pc = "open", !.got = "open"]
    ELSE [L EXCEPT !.got = L.pc]

\* getDatabase(): the module's variables and the instance it returns
getDatabase(L) ==
    IF Opens(L)
    THEN [L EXCEPT !.dbInstance = TRUE, !.isDestroyed = FALSE, !.pc = "open",
                   !.got = "open"]
    ELSE [L EXCEPT !.got = L.pc]

\* getDatabase(), the first call: the store is opened and the listener started
GetDatabase(s) ==
    /\ ~lsn.dbInstance /\ lsn.pc = "unopened"
    /\ FreeSub(s)
    /\ lsn' = getDatabase(lsn)
    /\ subs' = StartListener(subs, listener, s, -1)
    /\ listener' = s
    /\ UNCHANGED <<storeVars, syncVars>>

\* a feed that reports an error has ended
PouchError(f) == [f EXCEPT !.state = "failed"]

\* the listener's 'error' handler: setTimeout(startChangeListener, 5000)
FeedError(s) ==
    /\ subs[s].state = "live" /\ subs[s].kind = "listener"
    /\ CanOpen
    /\ subs' = [subs EXCEPT ![s] = PouchError(@)]
    /\ lsn' = [lsn EXCEPT !.timers = @ \cup {RestartTimer(s)}]
    /\ UNCHANGED <<listener, storeVars, syncVars>>

\* time passes up to the next restart timer to expire, in steps
FeedElapse ==
    Min(FeedStep, CHOOSE m \in {t.left : t \in lsn.timers} :
                      \A t \in lsn.timers : m <= t.left)

AdvanceFeed ==
    /\ lsn.timers # {}
    /\ \A t \in lsn.timers : t.left > 0
    /\ lsn' = [lsn EXCEPT !.timers = {[t EXCEPT !.left = @ - FeedElapse] : t \in @}]
    /\ subs' = [s \in FeedIds |->
                  IF subs[s].state = "failed"
                  THEN [subs[s] EXCEPT !.age = Min(RESTART_DELAY, @ + FeedElapse)]
                  ELSE subs[s]]
    /\ UNCHANGED <<listener, storeVars, syncVars>>

\* the restart timer's callback: startChangeListener()
RestartFire(t) ==
    /\ t.left = 0
    /\ lsn' = [lsn EXCEPT !.timers = @ \ {t}]
    /\ IF lsn.dbInstance
       THEN \E s \in FeedIds :
               /\ FreeSub(s)
               /\ subs' = StartListener(subs, listener, s, subs[t.of].age)
               /\ listener' = s
       ELSE UNCHANGED <<subs, listener>>
    /\ UNCHANGED <<storeVars, syncVars>>

\* destroyDatabase(), up to its await
DestroyStart ==
    /\ lsn.dbInstance /\ lsn.pc = "open"
    /\ subs' = CancelListener(subs, listener)
    /\ listener' = 0
    /\ lsn' = [lsn EXCEPT !.pc = "destroying"]
    /\ UNCHANGED <<storeVars, syncVars>>

\* a store that is destroyed ends the feeds opened on it
PouchDestroy(f) == [s \in FeedIds |-> PouchCancel(f[s])]

\* destroyDatabase(), after dbInstance.destroy()
DestroyDone ==
    /\ lsn.pc = "destroying"
    /\ subs' = PouchDestroy(subs)
    /\ lsn' = [lsn EXCEPT !.dbInstance = FALSE, !.isDestroyed = TRUE, !.pc = "destroyed"]
    /\ UNCHANGED <<listener, storeVars, syncVars>>

\* destroyDatabase() whose dbInstance.destroy() rejects: nothing is assigned
DestroyFailed ==
    /\ lsn.pc = "destroying"
    /\ lsn' = [lsn EXCEPT !.pc = "open"]
    /\ UNCHANGED <<subs, listener, storeVars, syncVars>>

\* getDatabase(), a later call: the instance held is returned, or after
\* destroyDatabase() a new one is created and its listener started
GetDatabaseLater(s) ==
    /\ lsn.pc # "unopened"
    /\ lsn' = getDatabase(lsn)
    /\ IF Opens(lsn)
       THEN /\ CanOpen /\ FreeSub(s)
            /\ subs' = StartListener(subs, listener, s, -1)
            /\ listener' = s
       ELSE UNCHANGED <<subs, listener>>
    /\ UNCHANGED <<storeVars, syncVars>>

\* initializeDatabase(), its local part: getDatabase(), then
\* startChangeListener() once more
InitializeLocal(s1, s2) ==
    /\ lsn' = getDatabase(lsn)
    /\ Cardinality(FreeFeeds) > Cardinality(lsn.timers) + 1
    /\ FreeSub(s1) /\ s2 = s1 + 1 /\ s2 \in FeedIds
    /\ IF Opens(lsn)
       THEN /\ subs' = StartListener(StartListener(subs, listener, s1, -1), s1, s2, -1)
            /\ listener' = s2
       ELSE /\ subs' = StartListener(subs, listener, s1, -1)
            /\ listener' = s1
    /\ UNCHANGED <<storeVars, syncVars>>

\* the feed emits its next change to the handler
Deliver(s) ==
    /\ subs[s].state = "live"
    /\ subs[s].next <= Len(log)
    /\ subs' = [subs EXCEPT ![s] =
                  [@ EXCEPT !.next = @ + 1,
                            !.events = Append(@, ChangeEvent(log[subs[s].next]))]]
    /\ UNCHANGED <<listener, lsn, storeVars, syncVars>>

(***************************************************************************)
(* The list query and the single-document calls of the notes services.     *)
(* The store holds, next to the notes, records of other kinds: a           *)
(* configuration record and the design document createIndex writes.        *)
(***************************************************************************)
LIST_LIMIT == 1000

\* the ids of the store, in the order of its primary index
IdOrder == <<"_design/idx-type-updatedAt", "config", "n1", "n2", "n3">>
QueryIds == {IdOrder[k] : k \in 1..Len(IdOrder)}
NoteIds == {"n1", "n2", "n3"}
IndexId == "_design/idx-type-updatedAt"
Rank(i) == CHOOSE k \in 1..Len(IdOrder) : IdOrder[k] = i

\* records of other kinds, written before the program started
StoredConfig == [rev |-> 1, deleted |-> FALSE, content |-> "dark", type |-> "config",
                 createdAt |-> 0, updatedAt |-> 1]
StoredIndex == [rev |-> 1, deleted |-> FALSE, content |-> "none", type |-> "none",
                createdAt |-> 0, updatedAt |-> 0]

\* a document as a query returns it
Row(d, i) == [id |-> i, rev |-> d[i].rev, type |-> d[i].type,
              updatedAt |-> d[i].updatedAt]

\* i comes before j in the order dir ("id": the primary index)
Before(d, i, j, dir) ==
    IF dir = "id" \/ d[i].updatedAt = d[j].updatedAt
    THEN (IF dir = "desc" THEN Rank(i) > Rank(j) ELSE Rank(i) < Rank(j))
    ELSE IF dir = "desc" THEN d[i].updatedAt > d[j].updatedAt
    ELSE d[i].updatedAt < d[j].updatedAt

RECURSIVE Ordered(_, _, _)
Ordered(d, S, dir) ==
    IF S = {} THEN <<>>
    ELSE LET first == CHOOSE i \in S : \A j \in S \ {i} : Before(d, i, j, dir)
         IN <<Row(d, first)>> \o Ordered(d, S \ {first}, dir)

Take(s, n) == IF n = 0 THEN s ELSE SubSeq(s, 1, Min(n, Len(s)))

\* db.find(request): the live documents the selector matches, in the order
\* of the sort, at most limit of them (limit 0: no limit given)
PouchFind(d, request) ==
    Take(Ordered(d, {i \in DOMAIN d : /\ IsLive(d[i])
                                      /\ d[i].type = request.type
                                      /\ request.dated => d[i].updatedAt # 0},
                 request.sort),
         request.limit)

\* db.allDocs({include_docs: true}): every live document, in id order
PouchAllDocs(d) == Ordered(d, {i \in DOMAIN d : IsLive(d[i])}, "id")

\* the options a caller passes to a list query ("none" / 0: not given)
QueryOptions == [sort : {"none", "asc", "desc"}, limit : {0, 2}]
NoOptions == [sort |-> "none", limit |-> 0]

\* a request that leaves the order to the primary index
unsortedOptions(type, options) ==
    [type |-> type, dated |-> FALSE, sort |-> "id", limit |-> options.limit]

\* localDatabase.queryDocumentsByType: { selector, sort: desc, ...options }
queryOptions(type, options) ==
    [type |-> type, dated |-> FALSE,
     sort |-> IF options.sort # "none" THEN options.sort ELSE "desc",
     limit |-> options.limit]

\* db.fp queryDocumentsByType: sort: options.sort || desc, limit: options.limit || 1000
fpQueryOptions(type, options) ==
    [type |-> type, dated |-> FALSE,
     sort |-> IF options.sort # "none" THEN options.sort ELSE "desc",
     limit |-> IF options.limit # 0 THEN options.limit ELSE LIST_LIMIT]

\* notes.getAll: find({ selector: { type: 'note' }, sort: desc, limit: 1000 })
getAllRequest == [type |-> "note", dated |-> FALSE, sort |-> "desc", limit |-> LIST_LIMIT]

\* notes service list: selector { type: 'note', updatedAt: { $exists: true } }
listRequest == [type |-> "note", dated |-> TRUE, sort |-> "desc", limit |-> LIST_LIMIT]

\* a getAll that does not look at the kind of the documents
allDocsUnfiltered(d) ==
    LET rows == PouchAllDocs(d)
    IN Ordered(d, {rows[k].id : k \in 1..Len(rows)}, "desc")

\* the allDocs fallback of getAll: filter the notes, sort them newest first
allDocsNotes(d) ==
    LET rows == PouchAllDocs(d)
    IN Ordered(d, {rows[k].id : k \in {n \in 1..Len(rows) : isNote(rows[n])}}, "desc")

\* the calls are made one after the other, by one caller
Caller == 1

\* a call can be made by a caller whose previous call has returned
CanCall(p) == task[p].pc \in {"idle", "done"}

Returned(o, id, out, rows) ==
    [IdleTask EXCEPT !.op = o, !.id = id, !.pc = "done", !.outcome = out,
                     !.found = rows, !.at = Len(log)]

QueryFrame == UNCHANGED <<docs, log, feedVars, syncVars>>

\* getAllNotes(options) = queryDocumentsByType('note', options)
QueryDocumentsByType(p, options) ==
    /\ CanCall(p)
    /\ task' = [task EXCEPT ![p] =
          [Returned("queryDocumentsByType", "n1", "ok",
                    PouchFind(docs, queryOptions("note", options)))
             EXCEPT !.opts = options]]
    /\ QueryFrame

FpQueryDocumentsByType(p, options) ==
    /\ CanCall(p)
    /\ task' = [task EXCEPT ![p] =
          [Returned("fpQueryDocumentsByType", "n1", "ok",
                    PouchFind(docs, fpQueryOptions("note", options)))
             EXCEPT !.opts = options]]
    /\ QueryFrame

GetAll(p) ==
    /\ CanCall(p)
    /\ task' = [task EXCEPT ![p] =
          Returned("getAll", "n1", "ok", PouchFind(docs, getAllRequest))]
    /\ QueryFrame

GetAllDocs(p) ==
    /\ CanCall(p)
    /\ task' = [task EXCEPT ![p] =
          Returned("getAllDocs", "n1", "ok", allDocsNotes(docs))]
    /\ QueryFrame

\* list: its createIndex writes the design document when the store has none
ListIndex(p) ==
    LET result == PouchPut(docs, IndexId, NoPayload)
    IN /\ CanCall(p)
       /\ IF IsLive(docs[IndexId]) THEN UNCHANGED <<docs, log>>
          ELSE Written("put", IndexId, 0, result, p)
       /\ task' = [task EXCEPT ![p] = [IdleTask EXCEPT !.op = "list", !.pc = "find"]]
       /\ UNCHANGED <<feedVars, syncVars>>

ListFind(p) ==
    /\ task[p].op = "list" /\ task[p].pc = "find"
    /\ task' = [task EXCEPT ![p] =
          Returned("list", "n1", "ok",
                   SelectSeq(PouchFind(docs, listRequest), isNote))]
    /\ QueryFrame

\* get(id) of the notes service
GetNote(p, id) ==
    /\ CanCall(p)
    /\ task' = [task EXCEPT ![p] =
          Returned("get", id, GetOutcome(dbGet(docs, id)), <<>>)]
    /\ QueryFrame

\* remove(id, rev) / deleteDocument(id, rev)
DeleteDocument(p, id, r) ==
    LET result == dbRemove(docs, id, r)
    IN /\ CanCall(p)
       /\ r \in HeldRevs(docs[id])
       /\ Written("remove", id, r, result, p)
       /\ task' = [task EXCEPT ![p] =
             [Returned("deleteDocument", id, result.res, <<>>)
                EXCEPT !.readRev = r, !.at = Len(log')]]
       /\ UNCHANGED <<feedVars, syncVars>>

\* remove(id) of the notes service: get, ensureNote, then remove the document
\* that was read
RemoveGet(p, id) ==
    LET g == dbGet(docs, id)
        out == GetOutcome(g)
    IN /\ CanCall(p)
       /\ task' = [task EXCEPT ![p] =
             IF out # "ok" THEN Returned("remove", id, out, <<>>)
             ELSE [IdleTask EXCEPT !.op = "remove", !.id = id, !.pc = "remove",
                                   !.readRev = g.doc.rev]]
       /\ QueryFrame

RemoveDoc(p) ==
    LET t == task[p]
        result == dbRemove(docs, t.id, t.readRev)
    IN /\ t.op = "remove" /\ t.pc = "remove"
       /\ Written("remove", t.id, t.readRev, result, p)
       /\ task' = [task EXCEPT ![p] =
             [Returned("remove", t.id, result.res, <<>>)
                EXCEPT !.readRev = t.readRev, !.at = Len(log')]]
       /\ UNCHANGED <<feedVars, syncVars>>

(***************************************************************************)
(* notes service: create(data) = put the new note, get it, ensureNote; and *)
(* update(id, updates) called with the fields a caller may pass.           *)
(***************************************************************************)
\* a note document without its type and with no updatedAt
createUntyped(c, now) == Payload(0, c, "none", now, 0)

\* create's noteDoc: { ...data, _id, content, type: 'note', createdAt: now,
\* updatedAt: now }, with no _rev
createNoteDoc(c, now) == Payload(0, c, "note", now, now)

CreatePut(p, id, c) ==
    LET w == createNoteDoc(c, Now)
        result == dbPut(docs, id, w)
        t == [IdleTask EXCEPT !.op = "create", !.id = id, !.content = c, !.w = w,
                              !.puts = 1, !.putRes = result.res]
    IN /\ CanCall(p)
       /\ Written("put", id, 0, result, p)
       /\ task' = [task EXCEPT ![p] =
             IF result.res = "ok"
             THEN [t EXCEPT !.pc = "reget", !.accepted = 1, !.at = Len(log')]
             ELSE [Finish(t, result.res, 0) EXCEPT !.at = Len(log')]]
       /\ UNCHANGED <<feedVars, syncVars>>

CreateReget(p) ==
    LET t == task[p]
        g == dbGet(docs, t.id)
    IN /\ t.op = "create" /\ t.pc = "reget"
       /\ task' = [task EXCEPT ![p] =
             Finish(t, GetOutcome(g), IF GetOutcome(g) = "ok" THEN g.doc.rev ELSE 0)]
       /\ QueryFrame

\* the fields a caller passes to update ("none" / 0: the field is not passed);
\* an _id, when passed, is that of another document
Updates == [content : {"none", "A"}, updatedAt : {0, 1}, type : {"none", "note"},
            id : {"none", "n2"}]

\* a revision out of another document's history: the revision check of the
\* store matches it with no revision of the document written
ForeignRev == -1

\* the _rev of the merged document, as the store sees it: the one read, which
\* belongs to the document read and not to one named by updates._id
mergedRev(doc, u) == IF u.id # "none" THEN ForeignRev ELSE doc.rev

\* a merge in which the caller's updatedAt wins
mergeCallerWins(doc, u, now) ==
    Payload(mergedRev(doc, u), IF u.content # "none" THEN u.content ELSE doc.content,
            IF u.type # "none" THEN u.type ELSE doc.type, doc.createdAt,
            IF u.updatedAt # 0 THEN u.updatedAt ELSE now)

\* a merge that drops the revision that was read
mergeNoRev(doc, u, now) ==
    Payload(0, IF u.content # "none" THEN u.content ELSE doc.content,
            IF u.type # "none" THEN u.type ELSE doc.type, doc.createdAt, now)

\* { ...doc, ...updates, updatedAt: new Date().toISOString() }
mergeUpdates(doc, u, now) ==
    Payload(mergedRev(doc, u), IF u.content # "none" THEN u.content ELSE doc.content,
            IF u.type # "none" THEN u.type ELSE doc.type, doc.createdAt, now)

\* update(id, updates): its get and the merge; UpdatePut and UpdateReget follow
UpdateNote(p, id, u) ==
    LET g == dbGet(docs, id)
        out == GetOutcome(g)
        t == [IdleTask EXCEPT !.op = "update", !.id = id, !.content = u.content,
                              !.newId = u.id, !.at = Len(log)]
    IN /\ CanCall(p)
       /\ task' = [task EXCEPT ![p] =
            IF out # "ok" THEN Finish(t, out, 0)
            ELSE [t EXCEPT !.pc = "put", !.readRev = g.doc.rev,
                           !.w = mergeUpdates(g.doc, u, Now)]]
       /\ QueryFrame

(***************************************************************************)
(* The local calls of the database service (getNote, createInitialNote,    *)
(* deleteNote, getAllNotes) next to the sync orchestrator.                  *)
(***************************************************************************)
\* local calls that wait until a replication is running
SyncedStore(S) == LiveReps(S) # {}

\* what a local call needs: const db = getDatabase(), the open local store
LocalStore(S) == TRUE

\* createInitialNote(id, content) = createDocument(id, content)
CreateDocument(p, id, c) ==
    LET result == PouchPut(docs, id, Payload(0, c, "note", Now, Now))
    IN /\ CanCall(p)
       /\ Written("put", id, 0, result, p)
       /\ task' = [task EXCEPT ![p] =
             [Returned("createDocument", id, result.res, <<>>)
                EXCEPT !.retRev = result.rev, !.at = Len(log')]]
       /\ UNCHANGED <<feedVars, syncVars>>

\* the document createInitialNote of the PouchDB service puts: no _rev, no type
initialNoteDoc(c, now) == Payload(0, c, "none", now, now)

\* a conflict handler that answers without the revision
existingRevLost(t, g) == Finish(t, "ok", 0)

\* catch conflict: existingDoc = await db.get(noteId); return existingDoc._rev
existingRev(t, g) == Finish(t, g.res, IF g.res = "ok" THEN g.doc.rev ELSE 0)

\* createInitialNote of the PouchDB service: put, and on conflict get
CreateInitialPut(p, id, c) ==
    LET w == initialNoteDoc(c, Now)
        result == PouchPut(docs, id, w)
        t == [IdleTask EXCEPT !.op = "createInitialNote", !.id = id, !.content = c,
                              !.w = w, !.puts = 1, !.putRes = result.res]
    IN /\ CanCall(p)
       /\ Written("put", id, 0, result, p)
       /\ task' = [task EXCEPT ![p] =
             IF result.res = "ok"
             THEN [Finish([t EXCEPT !.accepted = 1], "ok", result.rev)
                     EXCEPT !.at = Len(log')]
             ELSE [t EXCEPT !.pc = "reget", !.at = Len(log')]]
       /\ UNCHANGED <<feedVars, syncVars>>

CreateInitialGet(p) ==
    LET t == task[p]
        g == PouchGet(docs, t.id)
    IN /\ t.op = "createInitialNote" /\ t.pc = "reget"
       /\ task' = [task EXCEPT ![p] = [existingRev(t, g) EXCEPT !.at = Len(log)]]
       /\ QueryFrame

\* createInitialNote of createPouchDbService: get first ('Note already
\* exists' when found), put when the get answered not_found
CheckedCreateGet(p, id, c) ==
    LET g == PouchGet(docs, id)
        t == [IdleTask EXCEPT !.op = "createChecked", !.id = id, !.content = c,
                              !.at = Len(log)]
    IN /\ CanCall(p)
       /\ task' = [task EXCEPT ![p] =
             IF g.res = "ok" THEN Finish(t, "exists", 0)
             ELSE [t EXCEPT !.pc = "put", !.w = initialNoteDoc(c, Now)]]
       /\ QueryFrame

CheckedCreatePut(p) ==
    LET t == task[p]
        result == PouchPut(docs, t.id, t.w)
    IN /\ t.op = "createChecked" /\ t.pc = "put"
       /\ Written("put", t.id, 0, result, p)
       /\ task' = [task EXCEPT ![p] =
             [Finish([t EXCEPT !.puts = 1, !.putRes = result.res,
                               !.accepted = IF result.res = "ok" THEN 1 ELSE 0],
                     result.res, result.rev)
                EXCEPT !.at = Len(log')]]
       /\ UNCHANGED <<feedVars, syncVars>>

LocalGet(id) == LocalStore(sync) /\ GetNote(Caller, id)
LocalPut(id) == LocalStore(sync) /\ CreateDocument(Caller, id, ContentOf(Caller))
LocalRemove(id, r) == LocalStore(sync) /\ DeleteDocument(Caller, id, r)
LocalFind == LocalStore(sync) /\ QueryDocumentsByType(Caller, NoOptions)

(***************************************************************************)
(* The database service of index.js on the module-level orchestrator:      *)
(* initializeDatabase, testRemoteConnection and cleanupDatabases, and the   *)
(* cleanupDatabases of createDatabaseAPI.  One step per await.              *)
(***************************************************************************)
\* what getRemoteDatabase() can do: return the instance, or, when the handle
\* does not resolve, return null (no credentials) or throw (the constructor)
HandleOutcomes == IF cfg.remote THEN {"instance"} ELSE {"null", "throws"}

\* a provider that keeps the handle without noting the connection
getRemoteUnflagged(S, out) ==
    IF out = "instance" THEN [S EXCEPT !.remoteDbInstance = TRUE] ELSE S

\* getRemoteDatabase(): null without credentials; else the instance, which is
\* constructed on first use (isConnected = true), or the constructor's error
\* (isConnected = false)
getRemoteDatabase(S, out) ==
    IF out = "instance" THEN [S EXCEPT !.remoteDbInstance = TRUE, !.isConnected = TRUE]
    ELSE IF out = "throws" THEN [S EXCEPT !.isConnected = FALSE]
    ELSE S

\* isRemoteConnected()
isRemoteConnected(S) == S.isConnected

\* closeRemoteConnection() after its await: the handle is dropped when the
\* close succeeded, and kept when it threw
closeRemoteConnection(S, ok) ==
    IF ok THEN [S EXCEPT !.remoteDbInstance = FALSE, !.isConnected = FALSE] ELSE S

\* a connection test that lets the error go to its caller
Rethrow(e) == "threw"

\* catch (err) { return false } of testRemoteConnection
CatchFalse(e) == "false"

\* testRemoteConnection up to its await: "probe" when remote.info() was called
TestCalled(out) ==
    IF out = "throws" THEN CatchFalse(out)
    ELSE IF out = "null" THEN "false"
    ELSE "probe"

\* testRemoteConnection after remote.info()
TestProbed(ok) == IF ok THEN "true" ELSE CatchFalse("info")

AppFrame == UNCHANGED <<cfg, reg, bo, storeVars>>

\* a getRemoteDatabase() call of a caller of the provider
GetRemote(out) ==
    /\ out \in HandleOutcomes
    /\ sync' = getRemoteDatabase(sync, out)
    /\ UNCHANGED <<app, hist, feedVars>>
    /\ AppFrame

\* a closeRemoteConnection() call: it returns at once without a handle, and
\* awaits the handle's close() otherwise
CloseRemote ==
    /\ app.xpc # "closing"
    /\ app' = [app EXCEPT !.xpc = IF sync.remoteDbInstance THEN "closing" ELSE "closed"]
    /\ UNCHANGED <<sync, hist, feedVars>>
    /\ AppFrame

CloseRemoteDone(ok) ==
    /\ app.xpc = "closing"
    /\ sync' = closeRemoteConnection(sync, ok)
    /\ app' = [app EXCEPT !.xpc = IF ok THEN "closed" ELSE "failed"]
    /\ UNCHANGED <<hist, feedVars>>
    /\ AppFrame

\* a testRemoteConnection() call
TestRemoteConnection(out) ==
    /\ app.tpc = "idle"
    /\ out \in HandleOutcomes
    /\ sync' = getRemoteDatabase(sync, out)
    /\ app' = [app EXCEPT !.tpc = TestCalled(out), !.handle = out]
    /\ UNCHANGED <<hist, feedVars>>
    /\ AppFrame

TestProbe(ok) ==
    /\ app.tpc = "probe"
    /\ app' = [app EXCEPT !.tpc = TestProbed(ok),
                          !.probe = IF ok THEN "ok" ELSE "failed"]
    /\ UNCHANGED <<sync, hist, feedVars>>
    /\ AppFrame

\* an initialize that takes the remote for connected without asking
RemoteAssumed(out, res) == TRUE

\* let remoteConnected = false; if (remote) remoteConnected = await test()
RemoteConnected(out, res) == out = "instance" /\ res = "true"

\* initializeDatabase() up to its first await: the store is opened (which
\* starts the listener), the listener is started once more, and with sync
\* enabled the remote handle is asked for
InitializeDatabase(s1, s2, out) ==
    /\ cfg.variant = "js"
    /\ app.ipc = "idle" /\ app.cpc = "idle"
    /\ lsn.pc = "unopened"
    /\ Len(sync.calls) + 2 <= MaxStarts
    /\ FreeSub(s1) /\ s2 = s1 + 1 /\ s2 \in FeedIds
    /\ out \in HandleOutcomes
    /\ lsn' = getDatabase(lsn)
    /\ subs' = StartListener(StartListener(subs, listener, s1, -1), s1, s2, -1)
    /\ listener' = s2
    /\ IF ~cfg.enabled
       THEN /\ app' = [app EXCEPT !.ipc = "done",
                                  !.status = [NoInitStatus EXCEPT !.localInitialized = TRUE]]
            /\ UNCHANGED <<sync, hist>>
       ELSE IF out = "instance"
       THEN /\ app' = [app EXCEPT !.ipc = "probe"]
            /\ sync' = getRemoteDatabase(sync, out)
            /\ UNCHANGED hist
       ELSE /\ sync' = JsStartSync(sync, "manual", LiveOpts)
            /\ hist' = Called(hist)
            /\ app' = [app EXCEPT !.ipc = "startSync", !.awaits = Len(sync'.calls),
                                  !.status.remoteConnected = RemoteConnected(out, "none")]
    /\ AppFrame

\* initializeDatabase after the connection test: startSync({live, retry})
InitProbe(ok) ==
    /\ app.ipc = "probe"
    /\ sync' = JsStartSync(sync, "manual", LiveOpts)
    /\ hist' = Touch(hist)
    /\ app' = [app EXCEPT !.ipc = "startSync", !.awaits = Len(sync'.calls),
                          !.status.remoteConnected =
                              RemoteConnected("instance", TestProbed(ok))]
    /\ UNCHANGED feedVars
    /\ AppFrame

\* initializeDatabase after startSync returned: startPeriodicSync(), whose
\* timer id makes syncActive true, and the status is returned
InitPeriodic ==
    /\ app.ipc = "startSync"
    /\ sync.calls[app.awaits].pc = "done"
    /\ sync' = StartPeriodicSyncEffect(sync)
    /\ hist' = Touch(hist)
    /\ app' = [app EXCEPT !.ipc = "done",
                          !.status.localInitialized = TRUE,
                          !.status.syncActive = TRUE]
    /\ UNCHANGED feedVars
    /\ AppFrame

\* a store that is destroyed ends the replications that run on it
PouchDestroyReps(S) ==
    [S EXCEPT !.reps = [r \in DOMAIN S.reps |->
                          IF S.reps[r].state \in LiveStates
                          THEN [S.reps[r] EXCEPT !.state = "cancelled"]
                          ELSE S.reps[r]]]

Cleanups == {"index", "api"}

\* cleanupDatabases() of a service whose store is open, up to its first
\* await.  index.js: stopSync(), then closeRemoteConnection();
\* createDatabaseAPI: destroyDB()
CleanupStart(v) ==
    /\ cfg.variant = "js"
    /\ app.cpc = "idle" /\ app.ipc \in {"idle", "done"}
    /\ lsn.dbInstance
    /\ IF v = "index"
       THEN /\ sync' = StopSyncEffect(sync)
            /\ hist' = [Touch(hist) EXCEPT !.quiet = TRUE]
            /\ app' = [app EXCEPT !.cleanup = v,
                          !.cpc = IF sync.remoteDbInstance THEN "closing" ELSE "closed",
                          !.did = <<"stopSync">>]
            /\ UNCHANGED lsn
       ELSE /\ app' = [app EXCEPT !.cleanup = v,
                          !.cpc = IF lsn.dbInstance THEN "destroying" ELSE "destroyed"]
            /\ lsn' = IF lsn.dbInstance THEN [lsn EXCEPT !.pc = "destroying"] ELSE lsn
            /\ UNCHANGED <<sync, hist>>
    /\ UNCHANGED <<subs, listener>>
    /\ AppFrame

\* after closeRemoteConnection(): the handle is dropped; index.js goes on to
\* destroyDatabase(), which cancels the listener and destroys the store
CleanupClosed ==
    /\ app.cpc \in {"closing", "closed"}
    /\ sync' = closeRemoteConnection(sync, TRUE)
    /\ IF app.cleanup = "index" /\ lsn.dbInstance
       THEN /\ subs' = CancelListener(subs, listener)
            /\ listener' = 0
            /\ lsn' = [lsn EXCEPT !.pc = "destroying"]
            /\ app' = [app EXCEPT !.cpc = "destroying", !.did = Append(@, "close")]
       ELSE /\ app' = [app EXCEPT !.cpc = "done", !.did = Append(@, "close")]
            /\ UNCHANGED feedVars
    /\ UNCHANGED hist
    /\ AppFrame

\* after the store's destroy(): index.js is done; createDatabaseAPI goes on
\* to closeRemoteConnection()
CleanupDestroyed ==
    /\ app.cpc \in {"destroying", "destroyed"}
    /\ subs' = PouchDestroy(subs)
    /\ lsn' = [lsn EXCEPT !.dbInstance = FALSE, !.isDestroyed = TRUE, !.pc = "destroyed"]
    /\ sync' = PouchDestroyReps(sync)
    /\ app' = [app EXCEPT !.did = Append(@, "destroy"),
                          !.cpc = IF app.cleanup = "index" THEN "done"
                                  ELSE IF sync.remoteDbInstance THEN "closing"
                                  ELSE "closed"]
    /\ UNCHANGED <<listener, hist>>
    /\ AppFrame

FeedIdle ==
    /\ subs = [s \in FeedIds |-> NoSub]
    /\ listener = 0
    /\ lsn = LsnOpen

StoreStart ==
    /\ log = <<>>
    /\ task = [p \in Tasks |-> IdleTask]

(***************************************************************************)
(* The three specifications.                                               *)
(***************************************************************************)
InitStore ==
    /\ docs \in [DocIds -> {NoDoc, StoredNote}]
    /\ \A i \in DocIds \ HelperIds : docs[i] = NoDoc
    /\ StoreStart
    /\ FeedIdle
    /\ SyncIdle

NextStore ==
    \/ \E id \in HelperIds : \E r \in 0..MaxCommits : DirectPut(id, r, ContentOf(Env))
    \/ \E id \in HelperIds : \E r \in 0..MaxCommits : DirectRemove(id, r)
    \/ \E p \in Tasks, id \in HelperIds : UpdateGet(p, id, ContentOf(p))
    \/ \E p \in Tasks : UpdatePut(p)
    \/ \E p \in Tasks : UpdateReget(p)
    \/ \E p \in Tasks, id \in HelperIds : SaveDocumentGet(p, id, ContentOf(p))
    \/ \E p \in Tasks, id \in HelperIds :
          \E r \in 1..MaxCommits : SaveDocumentCall(p, id, ContentOf(p), r)
    \/ \E p \in Tasks : SaveDocumentPut(p)
    \/ \E p \in Tasks : SaveDocumentRefetch(p)
    \/ \E p \in Tasks, id \in HelperIds : SaveNoteGet(p, id, ContentOf(p))
    \/ \E p \in Tasks : SaveNotePut(p)
    \/ \E p \in Tasks : SaveNoteRefetch(p)

SpecStore == InitStore /\ [][NextStore]_vars

InitFeed ==
    /\ docs \in [DocIds -> {NoDoc, StoredNote}]
    /\ \A i \in DocIds \ HelperIds : docs[i] = NoDoc
    /\ StoreStart
    /\ FeedIdle
    /\ SyncIdle

NextFeed ==
    \/ \E id \in DocIds : \E r \in 0..MaxCommits :
          DirectPut(id, r, ContentOf(Env))
    \/ \E id \in DocIds : \E r \in 0..MaxCommits :
          DirectRemove(id, r)
    \/ \E s \in SubIds : Subscribe(s)
    \/ \E s \in SubIds : \E o \in [since : {"unset", "now"}, live : {"unset", "true"}] :
          Changes(s, o)
    \/ \E s \in SubIds : Unsubscribe(s)
    \/ \E s \in SubIds : StartChangeListener(s)
    \/ \E s \in SubIds : Deliver(s)

SpecFeed == InitFeed /\ [][NextFeed]_vars

\* the built-in listener: the module is loaded, the store not yet opened
InitListener ==
    /\ docs = [i \in DocIds |-> NoDoc]
    /\ StoreStart
    /\ subs = [s \in FeedIds |-> NoSub]
    /\ listener = 0
    /\ lsn = LsnStart
    /\ SyncIdle

NextListener ==
    \/ \E s \in FeedIds : GetDatabase(s)
    \/ \E s \in FeedIds : StartChangeListener(s)
    \/ \E s \in FeedIds : FeedError(s)
    \/ AdvanceFeed
    \/ \E t \in lsn.timers : RestartFire(t)
    \/ DestroyStart
    \/ DestroyDone
    \/ \E id \in HelperIds : \E r \in 0..MaxCommits :
          lsn.dbInstance /\ DirectPut(id, r, ContentOf(Env))
    \/ \E s \in FeedIds : Deliver(s)

\* timers expire, and their callbacks run
SpecListener ==
    /\ InitListener /\ [][NextListener]_vars
    /\ WF_vars(AdvanceFeed)
    /\ WF_vars(\E t \in lsn.timers : RestartFire(t))

\* the life of the store: opened, destroyed and opened again
NextLifecycle ==
    \/ \E s \in FeedIds : GetDatabase(s)
    \/ \E s \in FeedIds : GetDatabaseLater(s)
    \/ \E s1, s2 \in FeedIds : InitializeLocal(s1, s2)
    \/ \E s \in FeedIds : StartChangeListener(s)
    \/ \E s \in FeedIds : FeedError(s)
    \/ AdvanceFeed
    \/ \E t \in lsn.timers : RestartFire(t)
    \/ DestroyStart
    \/ DestroyDone
    \/ DestroyFailed

SpecLifecycle == InitListener /\ [][NextLifecycle]_vars

InitSync ==
    /\ docs = [i \in DocIds |-> NoDoc]
    /\ StoreStart
    /\ FeedIdle
    /\ cfg \in [variant : Variants, enabled : BOOLEAN, remote : BOOLEAN]
    /\ sync = SyncStart(cfg)
    /\ hist = HistStart
    /\ reg = RegIdle
    /\ bo = NoBackoff
    /\ app = AppStart

NextSync ==
    \/ StartSync(NoOpts)
    \/ \E c \in 1..Len(sync.calls) : FpOnStart(c)
    \/ \E c \in 1..Len(sync.calls) : FpBody(c)
    \/ \E c \in 1..Len(sync.calls) : FpComplete(c)
    \/ \E c \in 1..Len(sync.calls) : JsResume(c)
    \/ \E r \in 1..Len(sync.reps) : RepPaused(r)
    \/ \E r \in 1..Len(sync.reps) : RepActive(r)
    \/ \E r \in 1..Len(sync.reps) : RepError(r)
    \/ \E r \in 1..Len(sync.reps) : RepComplete(r)
    \/ DebouncedSync
    \/ \E t \in sync.timers : DebounceFire(t)
    \/ \E t \in sync.timers : PeriodicTick(t)
    \/ StartPeriodicSync
    \/ StopSync
    \/ Advance
    \/ \E t \in sync.timers : IntervalElapses(t)

SpecSync == InitSync /\ [][NextSync]_vars

\* createSyncService and its status subscribers
InitStatus ==
    /\ docs = [i \in DocIds |-> NoDoc]
    /\ StoreStart
    /\ FeedIdle
    /\ cfg \in [variant : {"fp"}, enabled : BOOLEAN, remote : {TRUE}]
    /\ sync = SyncStart(cfg)
    /\ hist = HistStart
    /\ reg = RegIdle
    /\ bo = NoBackoff
    /\ app = AppStart

NextStatus ==
    \/ \E h \in HandlerIds : SyncSubscribe(h)
    \/ \E h \in HandlerIds : SyncUnsubscribe(h)
    \/ \E e \in {"active", "paused"} : StatusUpdate(e)
    \/ StopSyncTask
    \/ \E r \in AllReactions : Notify(r)

SpecStatus == InitStatus /\ [][NextStatus]_vars

\* the retries of the replications the module-level startSync starts
InitBackoff ==
    /\ docs = [i \in DocIds |-> NoDoc]
    /\ StoreStart
    /\ FeedIdle
    /\ SyncIdle

NextBackoff ==
    \/ BackoffStart
    \/ RetryFail
    \/ RetryActive

SpecBackoff == InitBackoff /\ [][NextBackoff]_vars

\* the notes services on a store that also holds records of other kinds
InitNotes ==
    /\ docs \in [QueryIds -> {NoDoc, StoredConfig, StoredIndex}]
    /\ \A i \in NoteIds : docs[i] = NoDoc
    /\ docs["config"] \in {NoDoc, StoredConfig}
    /\ docs[IndexId] \in {NoDoc, StoredIndex}
    /\ StoreStart
    /\ FeedIdle
    /\ SyncIdle

NextNotes ==
    \/ \E id \in NoteIds \cup {"config"} :
          \E r \in 0..MaxCommits : DirectPut(id, r, ContentOf(Env))
    \/ \E id \in NoteIds : \E r \in 1..MaxCommits : DirectRemove(id, r)
    \/ \E o \in QueryOptions : QueryDocumentsByType(Caller, o)
    \/ \E o \in QueryOptions : FpQueryDocumentsByType(Caller, o)
    \/ GetAll(Caller)
    \/ GetAllDocs(Caller)
    \/ ListIndex(Caller)
    \/ ListFind(Caller)
    \/ \E id \in NoteIds : GetNote(Caller, id)
    \/ \E id \in NoteIds : \E r \in 1..MaxCommits : DeleteDocument(Caller, id, r)
    \/ \E id \in NoteIds : RemoveGet(Caller, id)
    \/ RemoveDoc(Caller)

SpecNotes == InitNotes /\ [][NextNotes]_vars

\* the database service on the module-level orchestrator
InitApp ==
    /\ docs = [i \in DocIds |-> NoDoc]
    /\ StoreStart
    /\ subs = [s \in FeedIds |-> NoSub]
    /\ listener = 0
    /\ lsn = LsnStart
    /\ cfg \in [variant : {"js"}, enabled : BOOLEAN, remote : BOOLEAN]
    /\ sync = SyncStart(cfg)
    /\ hist = HistStart
    /\ reg = RegIdle
    /\ bo = NoBackoff
    /\ app = AppStart

NextApp ==
    \/ \E s1, s2 \in FeedIds : \E out \in {"instance", "null", "throws"} :
          InitializeDatabase(s1, s2, out)
    \/ \E ok \in BOOLEAN : InitProbe(ok)
    \/ InitPeriodic
    \/ \E out \in {"instance", "null", "throws"} : TestRemoteConnection(out)
    \/ \E ok \in BOOLEAN : TestProbe(ok)
    \/ \E v \in Cleanups : CleanupStart(v)
    \/ CleanupClosed
    \/ CleanupDestroyed
    \/ lsn.dbInstance /\ StartSync(NoOpts)
    \/ \E c \in 1..Len(sync.calls) : JsResume(c)
    \/ \E r \in 1..Len(sync.reps) : RepError(r)
    \/ \E r \in 1..Len(sync.reps) : RepComplete(r)

SpecApp == InitApp /\ [][NextApp]_vars

\* the local calls in every state of the orchestrator
InitLocal ==
    /\ docs = [i \in QueryIds |-> NoDoc]
    /\ StoreStart
    /\ FeedIdle
    /\ cfg \in [variant : Variants, enabled : BOOLEAN, remote : BOOLEAN]
    /\ sync = SyncStart(cfg)
    /\ hist = HistStart
    /\ reg = RegIdle
    /\ bo = NoBackoff
    /\ app = AppStart

NextLocal ==
    \/ LocalGet("n1")
    \/ LocalPut("n1")
    \/ \E r \in 1..MaxCommits : LocalRemove("n1", r)
    \/ LocalFind
    \/ StartSync(NoOpts)
    \/ \E c \in 1..Len(sync.calls) : FpOnStart(c)
    \/ \E c \in 1..Len(sync.calls) : FpBody(c)
    \/ \E c \in 1..Len(sync.calls) : FpComplete(c)
    \/ \E c \in 1..Len(sync.calls) : JsResume(c)
    \/ \E r \in 1..Len(sync.reps) : RepPaused(r)
    \/ \E r \in 1..Len(sync.reps) : RepActive(r)
    \/ \E r \in 1..Len(sync.reps) : RepError(r)
    \/ \E r \in 1..Len(sync.reps) : RepComplete(r)
    \/ StopSync

SpecLocal == InitLocal /\ [][NextLocal]_vars

\* the remote connection provider, with the module-level orchestrator as one
\* of its callers
InitRemote ==
    /\ docs = [i \in DocIds |-> NoDoc]
    /\ StoreStart
    /\ FeedIdle
    /\ cfg \in [variant : {"js"}, enabled : BOOLEAN, remote : BOOLEAN]
    /\ sync = SyncStart(cfg)
    /\ hist = HistStart
    /\ reg = RegIdle
    /\ bo = NoBackoff
    /\ app = AppStart

NextRemote ==
    \/ \E out \in {"instance", "null", "throws"} : GetRemote(out)
    \/ \E out \in {"instance", "null", "throws"} : TestRemoteConnection(out)
    \/ \E ok \in BOOLEAN : TestProbe(ok)
    \/ CloseRemote
    \/ \E ok \in BOOLEAN : CloseRemoteDone(ok)
    \/ StartSync(NoOpts)
    \/ \E c \in 1..Len(sync.calls) : JsResume(c)
    \/ \E r \in 1..Len(sync.reps) : RepError(r)
    \/ \E r \in 1..Len(sync.reps) : RepComplete(r)
    \/ StopSync

SpecRemote == InitRemote /\ [][NextRemote]_vars

\* the notes service called by one caller, next to another writer, on a store
\* that also holds a configuration record
CrudIds == {"n1", "config"}

InitCrud ==
    /\ docs \in [QueryIds -> {NoDoc, StoredNote, StoredConfig}]
    /\ \A i \in QueryIds \ CrudIds : docs[i] = NoDoc
    /\ docs["n1"] \in {NoDoc, StoredNote}
    /\ docs["config"] \in {NoDoc, StoredConfig}
    /\ StoreStart
    /\ FeedIdle
    /\ SyncIdle

NextCrud ==
    \/ \E r \in 0..MaxCommits : DirectPut("n1", r, ContentOf(Env))
    \/ \E r \in 1..MaxCommits : DirectRemove("n1", r)
    \/ \E id \in CrudIds : CreatePut(Caller, id, ContentOf(Caller))
    \/ CreateReget(Caller)
    \/ \E id \in CrudIds : GetNote(Caller, id)
    \/ \E id \in CrudIds : \E u \in Updates : UpdateNote(Caller, id, u)
    \/ UpdatePut(Caller)
    \/ UpdateReget(Caller)
    \/ \E id \in CrudIds : RemoveGet(Caller, id)
    \/ RemoveDoc(Caller)
    \/ CreateDocument(Caller, "n1", ContentOf(Caller))
    \/ CreateInitialPut(Caller, "n1", ContentOf(Caller))
    \/ CreateInitialGet(Caller)
    \/ CheckedCreateGet(Caller, "n1", ContentOf(Caller))
    \/ CheckedCreatePut(Caller)

SpecCrud == InitCrud /\ [][NextCrud]_vars

(***************************************************************************)
(* Claims on the document store (checked under SpecStore).                 *)
(***************************************************************************)
LastCommit(l) == l[Len(l)]

HelperOps == {"saveDocument", "saveNote"}

\* C1: a put on an existing document that presents a revision other than the
\* document's current one (a stale one, or none) is rejected with Conflict and
\* leaves the store as it was; so every put the store accepts for an existing
\* document presented the revision that was current.
C1_StalePutRejected ==
    [][ /\ \A p \in Tasks :
             ( /\ task[p].pc = "put"
               /\ task'[p] # task[p]
               /\ IsLive(docs[task[p].id])
               /\ task[p].w.rev # docs[task[p].id].rev )
             => ( /\ task'[p].putRes = "conflict"
                  /\ docs' = docs
                  /\ log' = log )
        /\ ( log' # log /\ ~LastCommit(log').deleted
             /\ IsLive(docs[LastCommit(log').id]) )
           => LastCommit(log').base = docs[LastCommit(log').id].rev
      ]_vars

\* C1 witness: an update whose write presented a revision that was no longer
\* current has ended with Conflict, the newer document still stored.
C1_Witness ==
    \E p \in Tasks :
        /\ task[p].op = "update" /\ task[p].outcome = "conflict"
        /\ IsLive(docs[task[p].id])
        /\ docs[task[p].id].rev > task[p].readRev

\* C2: every accepted put or remove gives the document a revision that differs
\* from the one it had just before, and the note a successful update resolves
\* with carries a revision different from that of the note it was applied to.
C2_RevisionChanges ==
    [][ /\ log' # log =>
             /\ docs'[LastCommit(log').id].rev = LastCommit(log').rev
             /\ docs'[LastCommit(log').id].rev # docs[LastCommit(log').id].rev
        /\ \A p \in Tasks :
             ( task[p].pc # "done" /\ task'[p].pc = "done" /\ task'[p].outcome = "ok" )
             => ( /\ task'[p].retRev # task'[p].readRev
                  /\ task'[p].retRev # task'[p].w.rev
                  /\ task'[p].retRev > 0 )
      ]_vars

\* C2 witness: an update has resolved with a note, and a remove was accepted.
C2_Witness ==
    /\ \E p \in Tasks :
          task[p].op = "update" /\ task[p].outcome = "ok"
          /\ task[p].retRev > task[p].readRev
    /\ \E k \in 1..Len(log) : log[k].deleted

\* who wrote revision r of document id (Env when it was stored before the start)
WriterOf(id, r) ==
    IF \E k \in 1..Len(log) : log[k].id = id /\ log[k].rev = r
    THEN (CHOOSE e \in {log[k] : k \in 1..Len(log)} : e.id = id /\ e.rev = r).by
    ELSE Env

\* two updates of the same document that read the same revision and both wrote
RacingUpdates(p, q) ==
    /\ p # q
    /\ task[p].op = "update" /\ task[q].op = "update"
    /\ task[p].id = task[q].id
    /\ task[p].readRev = task[q].readRev
    /\ task[p].puts = 1 /\ task[q].puts = 1

\* two saveDocument calls on the same document that wrote on the same revision
RacingSaves(p, q) ==
    /\ p # q
    /\ task[p].op = "saveDocument" /\ task[q].op = "saveDocument"
    /\ task[p].id = task[q].id
    /\ task[p].readRev = task[q].readRev /\ task[p].readRev > 0
    /\ task[p].puts >= 1 /\ task[q].puts >= 1

\* the first write of the call was accepted
FirstAccepted(t) == t.puts = 1 /\ t.accepted = 1

C4_RetryOnce ==
    \A p \in Tasks :
        task[p].op \in HelperOps =>
            /\ task[p].puts <= 2
            /\ (task[p].puts = 2 /\ task[p].accepted = 0)
                  => (task[p].pc = "done" /\ task[p].outcome = "conflict")

\* C18: a write to a document that exists leaves its createdAt as it was,
\* whichever helper makes it, with or without a revision from the caller, at
\* the first attempt or at a retry.
C18_CreatedAtImmutable ==
    [][ \A id \in DocIds :
          (IsLive(docs[id]) /\ IsLive(docs'[id]))
             => docs'[id].createdAt = docs[id].createdAt ]_vars

\* the write task p makes in this step is a retry, and the store accepts it
RetryAccepted(p) ==
    /\ task[p].op \in HelperOps
    /\ task[p].pc = "put" /\ task[p].puts >= 1
    /\ task'[p].accepted = task[p].accepted + 1

\* C19: the document a save helper writes at its retry is the current
\* document (the one it fetched after the Conflict) with the caller's content
\* and a new updatedAt, its other fields as they were.
C19_RetryKeepsFields ==
    [][ \A p \in Tasks :
          RetryAccepted(p) =>
             /\ docs'[task[p].id].content = task[p].content
             /\ docs'[task[p].id].type = docs[task[p].id].type
             /\ docs'[task[p].id].createdAt = docs[task[p].id].createdAt ]_vars

\* the k-th commit is a put, and the last write to its document
LastPutOn(k) ==
    /\ ~log[k].deleted
    /\ \A j \in k + 1..Len(log) : log[j].id # log[k].id

\* the ids the note list query returns on the store d
ListedNotes(d) ==
    LET rows == PouchFind(d, queryOptions("note", NoOptions))
    IN {rows[k].id : k \in 1..Len(rows)}

\* C36: a stored note stays a note under every save: after a write of
\* saveDocument or saveNote (with or without a revision from the caller,
\* first write or retry) the document has type 'note' and the note list
\* query returns it.
C36_SavedNoteStaysNote ==
    [][ \A id \in HelperIds :
          ( /\ IsLive(docs[id]) /\ docs[id].type = "note"
            /\ log' # log /\ ~LastCommit(log').deleted
            /\ LastCommit(log').id = id
            /\ LastCommit(log').by \in Tasks
            /\ task[LastCommit(log').by].op \in HelperOps )
          => ( /\ docs'[id].type = "note"
               /\ id \in ListedNotes(docs') )
      ]_vars

\* C20: as long as nothing else is written to the document, a get after a put
\* returns the content the put wrote and the revision the put returned (the
\* one the helper that made the put resolved with).
C20_RoundTrip ==
    \A k \in 1..Len(log) :
        LastPutOn(k) =>
            LET g == dbGet(docs, log[k].id)
            IN /\ g.res = "ok"
               /\ g.doc.content = ContentOf(log[k].by)
               /\ g.doc.rev = log[k].rev
               /\ \A p \in Tasks :
                     (log[k].by = p /\ task[p].pc = "done")
                        => (task[p].outcome = "ok" /\ task[p].retRev = g.doc.rev)

\* C20 witness: a task's put on a document that was written before is the
\* last write, and the task has resolved.
C20_Witness ==
    \E k \in 2..Len(log) :
        /\ LastPutOn(k)
        /\ log[k].by \in Tasks
        /\ task[log[k].by].pc = "done"
        /\ docs[log[k].id].content = ContentOf(log[k].by)
        /\ docs[log[k].id].rev > 1

(***************************************************************************)
(* Claims on the list query and the notes calls (checked under SpecNotes). *)
(***************************************************************************)
ListQueries ==
    {"queryDocumentsByType", "fpQueryDocumentsByType", "getAll", "getAllDocs", "list"}

\* the list queries that have returned
Listed == {p \in Tasks : task[p].op \in ListQueries /\ task[p].pc = "done"}

\* the live notes of the store
LiveNotes == {i \in DOMAIN docs : IsLive(docs[i]) /\ isNote(docs[i])}

Descending(rows) ==
    \A k \in 1..(Len(rows) - 1) : rows[k].updatedAt > rows[k + 1].updatedAt

\* the first row is the most recently updated note of the store the query read
NewestFirst(t) ==
    (t.at = Len(log) /\ LiveNotes # {}) =>
        /\ t.found # <<>>
        /\ \A i \in LiveNotes : docs[i].updatedAt <= t.found[1].updatedAt

\* C21 as stated: every list query returns its documents in descending
\* updatedAt order, the most recently updated first, whatever options the
\* caller passes.
C21_NewestFirstAlways ==
    \A p \in Listed : Descending(task[p].found) /\ NewestFirst(task[p])

\* C21: a list query whose caller passes no sort of its own returns the
\* documents in descending updatedAt order, the most recently updated first;
\* a limit only shortens the list from its end.
C21_NewestFirstByDefault ==
    \A p \in Listed :
        task[p].opts.sort = "none" =>
            Descending(task[p].found) /\ NewestFirst(task[p])

\* three notes written in the order n3, n1, n2 are listed next to a
\* configuration record: [n2, n1, n3]
C21_Witness ==
    /\ task[Caller].op = "queryDocumentsByType" /\ task[Caller].pc = "done"
    /\ task[Caller].opts = NoOptions
    /\ task[Caller].at = Len(log)
    /\ IsLive(docs["config"])
    /\ Len(task[Caller].found) = 3
    /\ task[Caller].found[1].id = "n2" /\ task[Caller].found[3].id = "n3"

\* the ids a query returned
FoundIds(t) == {t.found[k].id : k \in 1..Len(t.found)}

RemoveReturns(id) ==
    /\ task'[Caller] # task[Caller]
    /\ task'[Caller].op \in {"remove", "deleteDocument"}
    /\ task'[Caller].pc = "done"
    /\ task'[Caller].id = id

\* C23: while a document is removed, get of its id fails with not found, and
\* a remove of it (with a revision held before, or remove(id) of the service)
\* fails with NotFound or Conflict and leaves store and update sequence as
\* they were.
C23_RemovedStaysRemoved ==
    /\ [](\A p \in Tasks :
            (/\ task[p].op = "get" /\ task[p].pc = "done"
             /\ task[p].at = Len(log) /\ docs[task[p].id].deleted)
                => task[p].outcome = "not_found")
    /\ [][\A id \in NoteIds :
            (docs[id].deleted /\ RemoveReturns(id)) =>
                /\ task'[Caller].outcome \in {"not_found", "conflict"}
                /\ docs' = docs /\ log' = log]_vars

\* the caller removed a note and its second remove of the same note has failed
C23_Witness ==
    /\ task[Caller].op \in {"remove", "deleteDocument"} /\ task[Caller].pc = "done"
    /\ task[Caller].outcome \in {"not_found", "conflict"}
    /\ docs[task[Caller].id].deleted
    /\ Len(log) > 0
    /\ log[Len(log)] = Commit(task[Caller].id, docs[task[Caller].id].rev, Caller,
                              TRUE, docs[task[Caller].id].rev - 1)

(***************************************************************************)
(* Claims on the database service (checked under SpecApp).                 *)
(***************************************************************************)
\* C26: with sync enabled and a remote handle that does not resolve (no
\* credentials), initializeDatabase does not throw: it returns
\* localInitialized true and remoteConnected false, with the local store
\* open and its change listener running.
C26_InitializeOffline ==
    (app.ipc = "done" /\ cfg.enabled /\ ~cfg.remote) =>
        /\ app.status.localInitialized
        /\ ~app.status.remoteConnected
        /\ app.cpc = "idle" =>
              /\ lsn.dbInstance
              /\ listener # 0 /\ subs[listener].state = "live"

\* initialize has returned without a remote handle, the listener is running
\* and the periodic timer is armed
C26_Witness ==
    /\ app.ipc = "done" /\ cfg.enabled /\ ~cfg.remote
    /\ app.cpc = "idle"
    /\ app.status.syncActive
    /\ listener # 0 /\ subs[listener].state = "live"
    /\ IntervalTimers(sync) # {}

\* C27: testRemoteConnection never throws; it returns true when the handle
\* resolved and the probe succeeded, and false when the handle was missing,
\* its constructor threw, or the probe failed.
C27_TestFailsSoft ==
    /\ app.tpc \in {"idle", "probe", "true", "false"}
    /\ app.tpc = "true" => (app.handle = "instance" /\ app.probe = "ok")
    /\ (app.tpc \notin {"idle", "probe"} /\ app.handle \in {"null", "throws"})
          => app.tpc = "false"
    /\ app.probe = "failed" => app.tpc = "false"
    /\ app.probe = "ok" => app.tpc = "true"

\* a test whose probe failed returned false
C27_Witness ==
    /\ app.tpc = "false" /\ app.handle = "instance" /\ app.probe = "failed"

\* C28: when cleanupDatabases completes, no replication is live, no periodic
\* timer is armed, the remote handle is closed and the local store is
\* destroyed, and shutdown stopped sync, closed the remote and destroyed the
\* store in that order.
C28_ShutdownOrder ==
    [][ (app.cpc # "done" /\ app'.cpc = "done") =>
           /\ LiveReps(sync') = {}
           /\ IntervalTimers(sync') = {} /\ sync'.syncInterval = 0
           /\ ~sync'.remoteDbInstance
           /\ ~lsn'.dbInstance
           /\ app'.did = <<"stopSync", "close", "destroy">>
      ]_vars

(***************************************************************************)
(* Claims on the sync orchestrator (checked under SpecSync).               *)
(***************************************************************************)
\* the startSync invocations made by the debounce timer
DebouncedStarts == {c \in 1..Len(sync.calls) : sync.calls[c].origin = "debounced"}

C6_OneLiveReplication == Cardinality(LiveReps(sync)) <= 1

\* C7: a stopSync call leaves no live replication, no replication handle and
\* no periodic timer; called again right after, or with nothing running, it
\* changes nothing but for what the first call leaves.
C7_StopSyncIdempotent ==
    [][ hist'.stopRun > 0 =>
          /\ LiveReps(sync') = {}
          /\ sync'.syncHandler = 0
          /\ sync'.syncInterval = 0
          /\ \A t \in sync'.timers : t.kind # "interval"
          /\ ~getStatus(sync').isActive
          /\ ~getStatus(sync').isPeriodicSyncActive
          /\ hist.stopRun > 0 => sync' = sync
          /\ (sync.syncHandler = 0 /\ sync.syncInterval = 0)
                => (sync'.reps = sync.reps /\ sync'.timers = sync.timers)
      ]_vars

\* a step in which the periodic timer's callback ran
PeriodicTicked ==
    /\ Len(sync'.calls) = Len(sync.calls) + 1
    /\ sync'.calls[Len(sync'.calls)].origin = "periodic"

\* C8: with periodic sync configured, a tick of the periodic timer leaves the
\* timer armed, whatever its startSync does, so the next tick follows.
C8_TimerSurvivesTick ==
    [][ (PeriodicTicked /\ cfg.enabled) =>
           \E t \in sync'.timers : t.kind = "interval" /\ t.left > 0 ]_vars

\* the replication of startSync call c was cancelled
CancelledCall(c) ==
    \E r \in 1..Len(sync.reps) :
        sync.reps[r].call = c /\ sync.reps[r].state \in {"cancelled", "ended"}

\* C16: an event of a replication that was cancelled (its 'complete'), and
\* the completion of the startSync call that started it, leave the status as
\* it was.
C16_CancelledIsSilent ==
    [][ /\ \A r \in 1..Len(sync.reps) :
             (sync.reps[r].state = "cancelled" /\ sync'.reps[r].state = "ended")
                => getStatus(sync') = getStatus(sync)
        /\ \A c \in 1..Len(sync.calls) :
             (CancelledCall(c) /\ sync.calls[c].pc = "settled"
                /\ sync'.calls[c].pc = "done")
                => getStatus(sync') = getStatus(sync)
      ]_vars

\* C17: the delay before a retry is 1000 ms after the first failure of a
\* replication (also of one a new startSync started), one and a half times
\* the previous delay after every further failure in a row, and never below
\* 1000 ms nor above 60000 ms.
C17_BackoffBounded ==
    bo.run > 0 =>
        /\ bo.delay >= 1000 * Scale
        /\ bo.delay <= 60000 * Scale
        /\ bo.run = 1 => bo.delay = 1000 * Scale
        /\ bo.before > 0 =>
              \/ 2 * bo.delay = 3 * bo.before
              \/ bo.delay = 60000 * Scale

\* the replications that fail in this step (their 'error' event)
Failing == {r \in 1..Len(sync.reps) :
               sync.reps[r].state \in LiveStates /\ sync'.reps[r].state = "failed"}

\* C24: the 'error' event of a replication leaves the status in an error
\* state (isActive false, isRemoteConnected false, error set) and the
\* periodic timer armed as it was; a startSync that creates a replication
\* afterwards leaves the status without the error.
C24_ErrorStatus ==
    [][ /\ Failing # {} =>
             /\ ~getStatus(sync').isActive
             /\ ~getStatus(sync').isRemoteConnected
             /\ getStatus(sync').error
             /\ sync'.syncInterval = sync.syncInterval
             /\ IntervalTimers(sync') = IntervalTimers(sync)
        /\ Len(sync'.reps) > Len(sync.reps) => ~getStatus(sync').error
      ]_vars

\* a startSync call (manual, debounced or periodic) takes a step: a call is
\* added without a new periodic timer being set, or a call moves on
StartSyncSteps ==
    \/ Len(sync'.calls) > Len(sync.calls) /\ sync'.nextTimer = sync.nextTimer
    \/ \E c \in 1..Len(sync.calls) : sync'.calls[c] # sync.calls[c]

\* C25: a replication exists only if sync is enabled and the remote handle
\* resolves; otherwise a startSync call ends in null / false / failure and
\* its steps leave the replications, the stored handle and the periodic
\* timer as they were.
C25_StartNeedsHandles ==
    /\ [](sync.reps # <<>> => cfg.enabled /\ cfg.remote)
    /\ []((~cfg.enabled \/ ~cfg.remote) =>
            \A c \in 1..Len(sync.calls) :
                sync.calls[c].pc = "done" =>
                    sync.calls[c].result \in {"null", "false", "error"})
    /\ [][ ((~cfg.enabled \/ ~cfg.remote) /\ StartSyncSteps) =>
              /\ sync'.reps = sync.reps
              /\ sync'.syncHandler = sync.syncHandler
              /\ sync'.syncInterval = sync.syncInterval
              /\ {t.id : t \in IntervalTimers(sync')} = {t.id : t \in IntervalTimers(sync)}
       ]_vars

\* the debouncedSync call n has settled: the startSync its timer made has
\* returned, and resolve was called with its result
SettledCall(n) ==
    \E c \in 1..Len(sync.calls) :
        /\ sync.calls[c].origin = "debounced" /\ sync.calls[c].ofCall = n
        /\ sync.calls[c].pc = "done"

\* nothing is pending that could still settle a debouncedSync call
NothingPending ==
    /\ Debounces(sync) = {}
    /\ \A c \in 1..Len(sync.calls) : sync.calls[c].pc = "done"

\* C29: every debouncedSync call settles, a superseded one included: once no
\* debounce timer and no startSync call is pending, every call made has
\* settled.
C29_EveryCallSettles ==
    NothingPending => \A n \in 1..hist.debCalls : SettledCall(n)

\* C35: once stopSync has returned, and as long as startSync, debouncedSync
\* and the initialization are not called again, no startSync is invoked and
\* no replication is started: a debounce timer that was pending at the stop
\* fires nothing.
C35_StopIsFinal ==
    [][ (hist.quiet /\ hist'.quiet) =>
          /\ Len(sync'.calls) = Len(sync.calls)
          /\ Len(sync'.reps) = Len(sync.reps)
      ]_vars

(***************************************************************************)
(* Claims on the status subscribers (checked under SpecStatus).            *)
(***************************************************************************)
\* the status the n-th transition made current (0: the one of construction)
StatusAt(n) == IF n = 0 THEN SyncStart(cfg).currentStatus ELSE reg.trans[n]

\* the transitions handler h is owed: those made after it subscribed whose
\* fan-out was over before its unsubscribe function was called, or is over
Owed(h) ==
    {n \in 1..Ver(reg) :
        /\ reg.hs[h].state # "new"
        /\ n > reg.hs[h].subAt
        /\ n <= IF reg.hs[h].unsubAt = -1 THEN Done(reg) ELSE reg.hs[h].unsubAt}

\* handler h was called with the status of transition n
Received(h, n) ==
    \E k \in 1..Len(reg.hs[h].got) :
        reg.hs[h].got[k] = [ver |-> n, status |-> StatusAt(n)]

\* C13: a handler that subscribed was called, in subscribe, with the status
\* that was current then, and has been called with every transition made
\* since, up to the call of its unsubscribe function.
C13_InitialThenEvery ==
    \A h \in HandlerIds :
        reg.hs[h].state # "new" =>
            /\ Len(reg.hs[h].got) >= 1
            /\ reg.hs[h].got[1].status = StatusAt(reg.hs[h].got[1].ver)
            /\ \A n \in Owed(h) : Received(h, n)

\* C14: when a fan-out is over every handler that was subscribed when the
\* transition was made (and was not unsubscribed since) has been called with
\* it, and inside a fan-out the handlers are called in the order in which
\* they subscribed.
C14_FanOutComplete ==
    [][ /\ (reg.fan.on /\ reg' # reg) =>
              reg.subscribers[reg.fan.idx] > reg.fan.last
        /\ ~reg'.fan.on =>
              \A h \in HandlerIds :
                  (reg'.hs[h].state = "subscribed" /\ reg'.hs[h].subAt < Ver(reg'))
                     => Len(reg'.hs[h].got) >= 1
                        /\ reg'.hs[h].got[Len(reg'.hs[h].got)].ver = Ver(reg')
      ]_vars

\* C15: the statuses a handler is called with are in the order of the
\* transitions, none older than one it had before; and when no fan-out is in
\* progress the status a subscribed handler had last is getStatus().
C15_NeverStale ==
    \A h \in HandlerIds :
        /\ \A j, k \in 1..Len(reg.hs[h].got) :
              j < k => reg.hs[h].got[j].ver < reg.hs[h].got[k].ver
        /\ (~reg.fan.on /\ reg.hs[h].state = "subscribed")
              => reg.hs[h].got[Len(reg.hs[h].got)].status = getStatus(sync)

(***************************************************************************)
(* Claims on the change feed (checked under SpecFeed).                     *)
(***************************************************************************)
\* the change event of the k-th commit made after subscription f was opened
CommitAfter(f, k) == ChangeEvent(log[f.startedAt + k])

\* C9: a subscription opened with since 'now', live true has received, in
\* commit order, one event (id and new revision) for each of the first commits
\* made after it was opened and none for an earlier commit; a live one that
\* has nothing left to emit has received one for every such commit.
C9_OneEventPerCommit ==
    \A s \in SubIds :
        subs[s].state # "free" =>
            /\ Len(subs[s].events) <= Len(log) - subs[s].startedAt
            /\ \A k \in 1..Len(subs[s].events) :
                  subs[s].events[k] = CommitAfter(subs[s], k)
            /\ (subs[s].state = "live" /\ subs[s].next > Len(log))
                  => Len(subs[s].events) = Len(log) - subs[s].startedAt

\* C9 witness: a subscription opened after a commit has received the two
\* commits made since.
C9_Witness ==
    \E s \in SubIds :
        /\ subs[s].state = "live"
        /\ subs[s].startedAt > 0
        /\ Len(subs[s].events) = 2
        /\ Len(log) = subs[s].startedAt + 2

\* subscription t was opened or cancelled in this step
Switched(t) == subs'[t].state # subs[t].state

Listeners == {s \in FeedIds : subs[s].kind = "listener"}

\* C12: at most one listener feed is running at any time; a listener the
\* restart timer started was started exactly 5000 ms after the error; and
\* after a listener feed has reported an error a listener is started again,
\* unless the store is gone.
C12_ListenerRestarts ==
    /\ [](Cardinality({s \in Listeners : subs[s].state = "live"}) <= 1)
    /\ [](\A s \in Listeners : subs[s].waited \in {-1, 5000})
    /\ \A s \in FeedIds :
          (subs[s].state = "failed")
             ~> (~lsn.dbInstance \/ \E t \in Listeners : t > s)

\* C12 witness: two listener feeds have failed, both restarts have run, and
\* the listener that runs was started by a restart timer.
C12_Witness ==
    /\ lsn.dbInstance /\ lsn.timers = {}
    /\ Cardinality({s \in Listeners : subs[s].state = "failed"}) = 2
    /\ \E s \in Listeners : subs[s].state = "live" /\ subs[s].waited = 5000

(***************************************************************************)
(* Claims on the local calls (checked under SpecLocal).                    *)
(***************************************************************************)
\* the result of the caller's last call is what the store it ran on gives
LocalResult(t) ==
    /\ t.op = "get" => t.outcome = GetOutcome(PouchGet(docs, t.id))
    /\ t.op = "queryDocumentsByType" =>
          t.found = PouchFind(docs, queryOptions("note", NoOptions))
    /\ t.op = "createDocument" =>
          (t.outcome = "ok" <=> (IsLive(docs[t.id]) /\ docs[t.id].rev = t.retRev))
    /\ t.op = "deleteDocument" =>
          /\ t.outcome = "ok" =>
                (docs[t.id].deleted /\ docs[t.id].rev = t.readRev + 1)
          /\ t.outcome = "conflict" =>
                (docs[t.id].rev # 0 /\ ~(IsLive(docs[t.id]) /\ docs[t.id].rev = t.readRev))
          /\ t.outcome = "not_found" => docs[t.id].rev = 0
          /\ t.outcome \in {"ok", "conflict", "not_found"}

CreateWrites(p) ==
    /\ task'[p] # task[p]
    /\ task'[p].op = "create"
    /\ ~(task[p].op = "create" /\ task[p].pc = "reget")

Calls(p, o) ==
    /\ CanCall(p)
    /\ task'[p] # task[p]
    /\ task'[p].op = o

\* C32: get, update and remove called with an id the store does not hold fail
\* with not_found, and update and remove write nothing in that case: the
\* call ends at its get, with the store and its update sequence as they were.
C32_AbsentIsNotFound ==
    [][ \A p \in Tasks : \A o \in {"get", "update", "remove"} :
          (Calls(p, o) /\ ~IsLive(docs[task'[p].id]))
          => ( /\ task'[p].pc = "done"
               /\ task'[p].outcome = "not_found"
               /\ task'[p].puts = 0
               /\ docs' = docs
               /\ log' = log )
      ]_vars

\* C32 witness: an update of n1 has failed with not_found after n1 was
\* removed, and the store holds no live n1.
C32_Witness ==
    /\ task[Caller].op = "update" /\ task[Caller].id = "n1"
    /\ task[Caller].outcome = "not_found"
    /\ docs["n1"].deleted
    /\ task[Caller].at = Len(log)

\* the clock when the update sequence had n commits (see Now)
TimeAt(n) == n + 2

\* p's step is the accepted put of an update call
UpdateAccepted(p) ==
    /\ task[p].op = "update" /\ task[p].pc = "put"
    /\ task'[p].pc = "reget"

\* C33: every successful update of a note sets updatedAt to the time of the
\* update (the time the call merged the fields), whether or not the update changes a field and whether or not the
\* caller passes an updatedAt of its own: with the clock going forward, the
\* note's updatedAt after the update is later than before it.
C33_UpdatedAtAdvances ==
    [][ \A p \in Tasks : UpdateAccepted(p) =>
          /\ docs'[task[p].id].updatedAt = TimeAt(task[p].at)
          /\ docs'[task[p].id].updatedAt > docs[task[p].id].updatedAt
      ]_vars

\* C33 witness: an update that passed no content has succeeded on the stored
\* note: the content is the stored one, updatedAt is the time of the update.
C33_Witness ==
    /\ task[Caller].op = "update" /\ task[Caller].outcome = "ok"
    /\ task[Caller].content = "none"
    /\ docs["n1"].content = StoredNote.content
    /\ docs["n1"].rev = 2
    /\ docs["n1"].updatedAt = 2

\* since p's update read the document, nobody else has written it
Alone(p) ==
    \A k \in (task[p].at + 1)..Len(log) :
        log[k].id = task[p].id => log[k].by = p

CreateOps == {"createDocument", "createInitialNote", "createChecked"}

\* C38: createInitialNote and createDocument never overwrite a stored
\* document: a step of theirs that meets a live document with the id (one
\* that was there before the call, or one created between the existence
\* check and the write) leaves the store as it was, and the call fails or
\* returns the revision of the stored document.
C38_CreateNeverOverwrites ==
    [][ \A p \in Tasks :
          ( /\ task'[p] # task[p]
            /\ task'[p].op \in CreateOps
            /\ IsLive(docs[task'[p].id]) )
          => ( /\ docs' = docs
               /\ log' = log
               /\ task'[p].accepted = 0
               /\ task'[p].pc = "done" =>
                     \/ task'[p].outcome \in {"conflict", "exists"}
                     \/ /\ task'[p].op = "createInitialNote"
                        /\ task'[p].outcome = "ok"
                        /\ task'[p].retRev = docs[task'[p].id].rev )
      ]_vars

\* C38 witness: the existence check of createInitialNote found no n1, another
\* writer created n1 before the write, and the write was rejected: n1 is the
\* other writer's document.
C38_Witness ==
    /\ task[Caller].op = "createChecked" /\ task[Caller].outcome = "conflict"
    /\ task[Caller].puts = 1
    /\ Len(log) = 1 /\ log[1] = Commit("n1", 1, Env, FALSE, 0)
    /\ docs["n1"].content = ContentOf(Env) /\ docs["n1"].rev = 1

(***************************************************************************)
(* Claims on the remote connection provider (checked under SpecRemote).    *)
(***************************************************************************)
\* C37: isRemoteConnected() is true exactly when a remote handle is held.
\* It turns true only in a step in which getRemoteDatabase constructs the
\* handle, is false as long as the credentials are missing or the
\* constructor throws, turns false (the handle dropped) only when
\* closeRemoteConnection's close succeeded, and a failed probe of
\* testRemoteConnection leaves it as it is.
C37_ConnectedIffHandle ==
    /\ [](isRemoteConnected(sync) <=> sync.remoteDbInstance)
    /\ [](~cfg.remote => ~isRemoteConnected(sync))
    /\ [][ /\ (isRemoteConnected(sync') /\ ~isRemoteConnected(sync))
               => (sync'.remoteDbInstance /\ ~sync.remoteDbInstance)
           /\ (~isRemoteConnected(sync') /\ isRemoteConnected(sync))
               => ( /\ app.xpc = "closing" /\ app'.xpc = "closed"
                    /\ ~sync'.remoteDbInstance )
           /\ (app.xpc = "closing" /\ app'.xpc = "failed")
               => isRemoteConnected(sync') = isRemoteConnected(sync)
           /\ (app.tpc = "probe" /\ app'.tpc = "false")
               => ( /\ isRemoteConnected(sync') = isRemoteConnected(sync)
                    /\ sync'.remoteDbInstance = sync.remoteDbInstance )
      ]_vars

\* C37 witness: the handle was constructed, a connection test's probe failed,
\* a close of the handle has succeeded and the handle was constructed again:
\* the provider reports connected.
C37_Witness ==
    /\ app.tpc = "false" /\ app.probe = "failed"
    /\ app.xpc = "closed"
    /\ sync.remoteDbInstance /\ isRemoteConnected(sync)

(***************************************************************************)
(* Claims on the life of the local store and its listener                  *)
(***************************************************************************)
\* the listeners that run: feeds of startChangeListener that were neither
\* cancelled nor ended by an error
Running == {s \in FeedIds : subs[s].kind = "listener" /\ subs[s].state = "live"}

\* destroyDatabase() has completed and getDatabase() was not called since
Destroyed == lsn.isDestroyed /\ ~lsn.dbInstance

====
